---- MODULE Spec2Model ----
(***************************************************************************)
(* Model of the 3D viewer's model-history store (ModelHistoryServiceImpl:  *)
(* a Dexie/IndexedDB backend with a localStorage fallback) and of the      *)
(* load pipeline of the hooks useModelViewer / useModelViewerLogic.        *)
(***************************************************************************)
EXTENDS Integers, Sequences, FiniteSets, TLC

VARIABLES
  dexie,      \* rows of the Dexie table 'history' (a set of HistoryItem records)
  local,      \* the parsed array stored under storageKey in localStorage
  useDexie,   \* ModelHistoryServiceImpl.useDexie
  lsAvail,    \* 'localStorage' in window && !!window.localStorage
  now,        \* the value Date.now() returns
  last,       \* record of the last completed public operation of the service
  everFailed, \* a Dexie step has thrown inside a public operation
  opCount,    \* number of public operations called so far
  pure,       \* so far: only successful adds of distinct (name, size), one backend
  inserted,   \* while pure: the id and timestamp of every entry added so far
  hook,           \* the hook in use: "viewer" (useModelViewer) or "logic"
  loadingState,   \* useState loadingState
  currentModel,   \* useState currentModel (NoModel is null)
  currentFile,    \* useState currentFile of useModelViewer (Null is null)
  progress,       \* useState progress
  error,          \* useState error of useModelViewer: its code, or "none"
  sceneModel,     \* SceneService.loadedModel, the object named 'loadedModel'
  reqs,           \* the load requests made so far, in the order they started
  onModelLoadCalls, \* per request: invocations of the collaborator's onModelLoad
  onErrorCalls,   \* per request: invocations of the collaborator's onError
  rerenders,      \* re-renders that gave the hook a new onModelLoad function
  loadedModel,    \* SceneService.loadedModel: the root object and its transform
  cameraPosition, \* camera.position as focusOnModel sets it
  cameraTarget,   \* the point the camera looks at
  orbit,          \* camera.position in spherical coordinates about the origin
  divisions,      \* divisions by maxDimension made by addModel so far
  placements,     \* calls of addModel so far
  inputName,      \* the name of the file handed to the format functions
  resolved,       \* what the format functions returned for it (Null: not called)
  addCalls,       \* the overlapping calls of addToHistory: position and locals
  isMouseDown,    \* SceneService.isMouseDown
  previousMousePosition, \* SceneService.previousMousePosition
  modelRotation,  \* SceneService.modelRotation, in units of 0.001 rad
  rotation,       \* loadedModel.rotation (x, y), in units of 0.001 rad
  cameraRoll,     \* the camera's rotation about its view axis (rotateZ), in
                  \* units of 0.01 rad
  touchState,     \* touchStateRef.current of TouchGestureOverlay
  surface,        \* the fingers on the touch surface, and where the gesture
                  \* stands after a pinch has ended
  listening,      \* the canvas listeners of SceneService are registered
  teardown,       \* the steps dispose has performed, in order
  lastEvent,      \* the event handled by the last step
  events,         \* number of events handled so far
  instance,       \* ThreeConfig.instance: the current ThreeConfig, or 0
  threeConfigs,   \* the ThreeConfig objects created so far: renderer, canvas
  sceneServices,  \* the SceneService objects constructed so far
  windowListeners, \* the 'resize' listeners registered on window
  frames,         \* the services with a requested animation frame pending
  lastFrame,      \* what the last animation frame callback did
  resized         \* the services whose renderer the last resize event sized

hvars == <<dexie, local, useDexie, lsAvail, now, last, everFailed, opCount,
           pure, inserted>>

\* the bookkeeping of the sequential service specification
gvars == <<last, everFailed, opCount, pure, inserted>>

vvars == <<hook, loadingState, currentModel, currentFile, progress, error,
           sceneModel, reqs, onModelLoadCalls, onErrorCalls, rerenders>>

\* the scene: the placed model and the camera
svars == <<loadedModel, cameraPosition, cameraTarget, orbit, divisions,
           placements>>

\* the file-format resolution
fvars == <<inputName, resolved>>

\* the overlapping calls of addToHistory
avars == <<addCalls>>

\* the pointer and touch controllers and the teardown
pvars == <<isMouseDown, previousMousePosition, modelRotation, rotation,
           cameraRoll, touchState, surface, listening, teardown, lastEvent,
           events>>

\* the SceneService objects, the ThreeConfig singleton and the browser's
\* listener and animation-frame registries
dvars == <<instance, threeConfigs, sceneServices, windowListeners, frames,
           lastFrame, resized>>

vars == <<dexie, local, useDexie, lsAvail, now, last, everFailed, opCount,
          pure, inserted, hook, loadingState, currentModel, currentFile,
          progress, error, sceneModel, reqs, onModelLoadCalls, onErrorCalls,
          rerenders, loadedModel, cameraPosition, cameraTarget, orbit,
          divisions, placements, inputName, resolved, addCalls, isMouseDown,
          previousMousePosition, modelRotation, rotation, cameraRoll,
          touchState, surface, listening, teardown, lastEvent, events,
          instance, threeConfigs, sceneServices, windowListeners, frames,
          lastFrame, resized>>

-----------------------------------------------------------------------------
(* Bounds of the model *)

MaxHistoryItems == 2   \* options.maxHistoryItems for the modelled instance
MaxOps == 3            \* public operations per behaviour
MaxReq == 2            \* load requests per behaviour
MaxRerenders == 1      \* re-renders with a new onModelLoad per behaviour
MaxFileSize == 2       \* options.maxFileSize for the modelled instance, in bytes
MaxPlacements == 2     \* calls of addModel per behaviour

-----------------------------------------------------------------------------
(* File names are sequences of characters; a File is name + bytes. *)

NameA == <<"a", ".", "o", "b", "j">>
NameB == <<"B", ".", "S", "T", "L">>

FileNames == {NameA, NameB}

\* the bytes of a file; two of them have the same length
FileDatas == {<<0>>, <<1>>, <<0, 1>>}

\* the files the user loads: three (name, size) pairs, one of them with two
\* different contents
Files ==
  {file \in [name : FileNames, data : FileDatas] :
     file.name = NameA \/ file.data = <<0>>}

\* File.size is the byte length of the content
FileSize(file) == Len(file.data)

\* a value that may be absent (null) is a sequence of length 0 or 1
Null == <<>>

Some(x) == <<x>>

\* String.prototype.toLowerCase on one character
LowerChar(c) ==
  CASE c = "A" -> "a" [] c = "B" -> "b" [] c = "C" -> "c" [] c = "D" -> "d"
    [] c = "E" -> "e" [] c = "F" -> "f" [] c = "G" -> "g" [] c = "J" -> "j"
    [] c = "L" -> "l" [] c = "M" -> "m" [] c = "N" -> "n" [] c = "O" -> "o"
    [] c = "P" -> "p" [] c = "R" -> "r" [] c = "S" -> "s" [] c = "T" -> "t"
    [] c = "U" -> "u" [] c = "X" -> "x" [] c = "Y" -> "y"
    [] OTHER -> c

ToLowerCase(s) == [i \in 1..Len(s) |-> LowerChar(s[i])]

\* fileName.split('.').pop(): the text after the last dot (the whole name
\* when it has no dot)
LastSegment(s) ==
  LET dots == {i \in 1..Len(s) : s[i] = "."}
      start == IF dots = {} THEN 1
               ELSE (CHOOSE i \in dots : \A j \in dots : j <= i) + 1
  IN SubSeq(s, start, Len(s))

Unknown == <<"u", "n", "k", "n", "o", "w", "n">>

\* ModelHistoryServiceImpl.getFileFormat
HistoryFileFormat(fileName) ==
  LET extension == ToLowerCase(LastSegment(fileName))
  IN IF extension = <<>> THEN Unknown ELSE extension

-----------------------------------------------------------------------------
(* HistoryItem records and the two stores *)

EmptyData == <<>>

\* a THREE.Object3D is identified by the request and the parse that made it
NoModel == <<>>

\* what generateThumbnail returns: a data URL, or '' when rendering throws
Thumbnails == {"png", ""}

\* the steps of generateThumbnail's try block that can throw ("none": no
\* step throws)
ThumbnailSteps == {"none", "renderer", "clone", "render", "toDataURL"}

\* generateThumbnail(model): the data URL of the rendering, '' when a step
\* throws
generateThumbnail(throwsAt) == IF throwsAt = "none" THEN "png" ELSE ""

\* generateId: Date.now().toString(36) + Math.random().toString(36).  Calls
\* are made at distinct times (see Apply), so the random suffix, which only
\* separates ids made in the same millisecond, is left out.
GenerateId(t) == t

\* order of the ids as Dexie primary keys (string order of the time prefix)
IdLess(a, b) == a < b

\* NewItem with the bytes left out of the record
NewItemNoData(id, file, ts, thumbnail) ==
  [id |-> id, name |-> file.name, data |-> EmptyData,
   format |-> HistoryFileFormat(file.name), size |-> FileSize(file),
   timestamp |-> ts, thumbnail |-> thumbnail]

\* the HistoryItem addToHistory builds for a new entry
NewItem(id, file, ts, thumbnail) ==
  [id |-> id, name |-> file.name, data |-> file.data,
   format |-> HistoryFileFormat(file.name), size |-> FileSize(file),
   timestamp |-> ts, thumbnail |-> thumbnail]

\* order of the index 'timestamp' of the Dexie table: key, then primary key
TimestampLess(a, b) ==
  a.timestamp < b.timestamp \/ (a.timestamp = b.timestamp /\ IdLess(a.id, b.id))

\* db.history.orderBy('timestamp').limit(n).toArray()
OldestItems(rows, n) ==
  {x \in rows : Cardinality({y \in rows : TimestampLess(y, x)}) < n}

RECURSIVE OrderByTimestampReverse(_)
\* db.history.orderBy('timestamp').reverse().toArray()
OrderByTimestampReverse(rows) ==
  IF rows = {} THEN <<>>
  ELSE LET top == CHOOSE x \in rows : \A y \in rows : y = x \/ TimestampLess(y, x)
       IN <<top>> \o OrderByTimestampReverse(rows \ {top})

RECURSIVE InsertDesc(_, _)
\* stable insertion used by SortByTimestampDesc
InsertDesc(x, sorted) ==
  IF sorted = <<>> THEN <<x>>
  ELSE IF Head(sorted).timestamp > x.timestamp
       THEN <<Head(sorted)>> \o InsertDesc(x, Tail(sorted))
       ELSE <<x>> \o sorted

RECURSIVE SortByTimestampDesc(_)
\* Array.prototype.sort((a, b) => b.timestamp - a.timestamp), a stable sort
SortByTimestampDesc(seq) ==
  IF seq = <<>> THEN <<>>
  ELSE InsertDesc(Head(seq),
                  SortByTimestampDesc(Tail(seq)))

-----------------------------------------------------------------------------
(* The private helpers of ModelHistoryServiceImpl.  ls is lsAvail; a helper *)
(* that can throw returns threw = TRUE.                                     *)

\* getLocalStorageHistory: [] when the key is absent or localStorage throws
getLocalStorageHistory(l, ls) == IF ls THEN l ELSE <<>>

\* LightItem that drops the thumbnail but keeps the bytes
LightItemKeepsData(item) == [item EXCEPT !.thumbnail = ""]

\* the item as saveToLocalStorage stores it
LightItem(item) == [item EXCEPT !.data = EmptyData, !.thumbnail = ""]

\* saveToLocalStorage: prepend the light item, keep the first maxHistoryItems
saveToLocalStorage(l, ls, item) ==
  IF ~ls THEN [local |-> l, threw |-> TRUE, ret |-> Null]
  ELSE LET updatedHistory == <<LightItem(item)>> \o getLocalStorageHistory(l, ls)
           limitedHistory ==
             SubSeq(updatedHistory, 1,
                    IF Len(updatedHistory) < MaxHistoryItems
                    THEN Len(updatedHistory) ELSE MaxHistoryItems)
       IN [local |-> limitedHistory, threw |-> FALSE, ret |-> item.id]

\* deleteFromLocalStorage: filter the id out; false when setItem throws
deleteFromLocalStorage(l, ls, id) ==
  IF ~ls THEN [local |-> l, threw |-> FALSE, ret |-> FALSE]
  ELSE [local |-> SelectSeq(l, LAMBDA item : item.id # id),
        threw |-> FALSE, ret |-> TRUE]

\* clearLocalStorage: removeItem; rethrows when localStorage throws
clearLocalStorage(l, ls) ==
  IF ~ls THEN [local |-> l, threw |-> TRUE, ret |-> Null]
  ELSE [local |-> <<>>, threw |-> FALSE, ret |-> Null]

\* findExistingItemInLocalStorage: first entry with that name and size
findExistingItemInLocalStorage(l, ls, name, size) ==
  LET hits == {i \in 1..Len(l) : l[i].name = name /\ l[i].size = size}
  IN IF ~ls \/ hits = {} THEN Null
     ELSE Some(l[CHOOSE i \in hits : \A j \in hits : i <= j])

\* moveToTopInLocalStorage: splice the entry out, stamp it, unshift it
moveToTopInLocalStorage(l, ls, id, t) ==
  LET hits == {i \in 1..Len(l) : l[i].id = id}
  IN IF ~ls \/ hits = {} THEN [local |-> l, threw |-> TRUE, ret |-> Null]
     ELSE LET itemIndex == CHOOSE i \in hits : \A j \in hits : i <= j
              item == [l[itemIndex] EXCEPT !.timestamp = t]
              rest == SubSeq(l, 1, itemIndex - 1) \o SubSeq(l, itemIndex + 1, Len(l))
          IN [local |-> <<item>> \o rest, threw |-> FALSE, ret |-> id]

\* localStorage lookup of getHistoryItem: find(item => item.id === id) || null
findInLocalStorageById(l, ls, id) ==
  LET hist == getLocalStorageHistory(l, ls)
      hits == {i \in 1..Len(hist) : hist[i].id = id}
  IN IF hits = {} THEN Null
     ELSE Some(hist[CHOOSE i \in hits : \A j \in hits : i <= j])

\* db.history.where({ name, size }).first(): the match with the least primary key
dexieWhereFirst(rows, name, size) ==
  LET hits == {x \in rows : x.name = name /\ x.size = size}
  IN IF hits = {} THEN Null
     ELSE Some(CHOOSE x \in hits : \A y \in hits : y = x \/ IdLess(x.id, y.id))

\* db.history.get(id)
dexieGet(rows, id) ==
  IF \E x \in rows : x.id = id THEN Some(CHOOSE x \in rows : x.id = id) ELSE Null

\* put that adds the item and keeps the row it should replace
dexiePutKeepsOld(rows, item) == rows \cup {item}

\* db.history.put(item): insert or replace by primary key
dexiePut(rows, item) == {x \in rows : x.id # item.id} \cup {item}

\* cleanupOldItemsDexie with the comparison off by one
cleanupOldItemsDexieOffByOne(rows) ==
  LET count == Cardinality(rows)
  IN IF count > MaxHistoryItems + 1
     THEN rows \ OldestItems(rows, count - MaxHistoryItems)
     ELSE rows

\* cleanupOldItemsDexie: delete the count - maxHistoryItems oldest rows
cleanupOldItemsDexie(rows) ==
  LET count == Cardinality(rows)
  IN IF count > MaxHistoryItems
     THEN rows \ OldestItems(rows, count - MaxHistoryItems)
     ELSE rows

\* the steps of the Dexie backend that can throw inside a public operation
FailPoints == {"none", "find", "get", "put", "add", "cleanup", "read", "delete", "clear"}

\* result of a public operation: the stores, the flag, whether it threw, the
\* returned value, whether a Dexie table operation ran, whether one threw,
\* and the branch taken ("dedup", "insert" or "none")
Result(d, l, u, threw, ret, used, failed, path) ==
  [dexie |-> d, local |-> l, useDexie |-> u, threw |-> threw, ret |-> ret,
   usedDexie |-> used, failed |-> failed, path |-> path]

\* isSupported that reports support when neither backend is usable
isSupportedAssumesStorage(u, ls, probe) ==
  IF probe THEN [useDexie |-> TRUE, ret |-> TRUE]
  ELSE IF ls THEN [useDexie |-> FALSE, ret |-> TRUE]
  ELSE [useDexie |-> u, ret |-> TRUE]

\* isSupported: the Dexie probe wins and sets useDexie, else localStorage
isSupported(u, ls, probe) ==
  IF probe THEN [useDexie |-> TRUE, ret |-> TRUE]
  ELSE IF ls THEN [useDexie |-> FALSE, ret |-> TRUE]
  ELSE [useDexie |-> u, ret |-> FALSE]

\* findExistingItem: search Dexie, on a throw clear useDexie and search
\* localStorage
findExistingItem(d, l, u, ls, name, size, fail) ==
  IF u
  THEN IF fail = "find"
       THEN [useDexie |-> FALSE, used |-> TRUE, failed |-> TRUE,
             item |-> findExistingItemInLocalStorage(l, ls, name, size)]
       ELSE [useDexie |-> TRUE, used |-> TRUE, failed |-> FALSE,
             item |-> dexieWhereFirst(d, name, size)]
  ELSE [useDexie |-> FALSE, used |-> FALSE, failed |-> FALSE,
        item |-> findExistingItemInLocalStorage(l, ls, name, size)]

\* moveToTop that puts the row back without the new timestamp
moveToTopNoStamp(d, l, u, ls, id, t, fail, used, failed) ==
  LET fallback == moveToTopInLocalStorage(l, ls, id, t)
  IN IF u
     THEN IF fail \in {"get", "put"} \/ dexieGet(d, id) = Null
          THEN Result(d, fallback.local, FALSE, fallback.threw, fallback.ret,
                      TRUE, TRUE, "dedup")
          ELSE LET item == dexieGet(d, id)[1]
               IN Result(dexiePut(d, item), l, TRUE, FALSE, id, TRUE, failed, "dedup")
     ELSE Result(d, fallback.local, FALSE, fallback.threw, fallback.ret,
                 used, failed, "dedup")

\* moveToTop: stamp the row with Date.now() and put it back; any throw in the
\* Dexie branch (also 'Item not found') falls back to localStorage
moveToTop(d, l, u, ls, id, t, fail, used, failed) ==
  LET fallback == moveToTopInLocalStorage(l, ls, id, t)
  IN IF u
     THEN IF fail \in {"get", "put"} \/ dexieGet(d, id) = Null
          THEN Result(d, fallback.local, FALSE, fallback.threw, fallback.ret,
                      TRUE, TRUE, "dedup")
          ELSE LET item == [dexieGet(d, id)[1] EXCEPT !.timestamp = t]
               IN Result(dexiePut(d, item), l, TRUE, FALSE, id, TRUE, failed, "dedup")
     ELSE Result(d, fallback.local, FALSE, fallback.threw, fallback.ret,
                 used, failed, "dedup")

\* addToHistory that gives up when no thumbnail could be generated
addToHistoryNeedsThumbnail(d, l, u, ls, file, t, probe, fail, thumbnail) ==
  LET supported == isSupported(u, ls, probe)
      existing == findExistingItem(d, l, supported.useDexie, ls,
                                   file.name, FileSize(file), fail)
      id == GenerateId(t)
      historyItem == NewItem(id, file, t, thumbnail)
      saved == saveToLocalStorage(l, ls, historyItem)
      added == d \cup {historyItem}
  IN IF ~supported.ret
     THEN Result(d, l, supported.useDexie, TRUE, Null, FALSE, FALSE, "none")
     ELSE IF existing.item # Null
     THEN moveToTop(d, l, existing.useDexie, ls, existing.item[1].id, t, fail,
                    existing.used, existing.failed)
     ELSE IF thumbnail = ""
     THEN Result(d, l, existing.useDexie, TRUE, Null,
                 existing.used, existing.failed, "insert")
     ELSE IF ~existing.useDexie
     THEN Result(d, saved.local, FALSE, saved.threw, saved.ret,
                 existing.used, existing.failed, "insert")
     ELSE IF fail = "add" \/ dexieGet(d, id) # Null
     THEN Result(d, saved.local, FALSE, saved.threw, saved.ret, TRUE, TRUE, "insert")
     ELSE IF fail = "cleanup"
     THEN Result(added, saved.local, FALSE, saved.threw, saved.ret, TRUE, TRUE, "insert")
     ELSE Result(cleanupOldItemsDexie(added), l, TRUE, FALSE, id, TRUE, FALSE, "insert")

\* addToHistory(file, model): probe, dedup by (name, size), else insert a new
\* item and evict; thumbnail is what generateThumbnail(model) returns
addToHistory(d, l, u, ls, file, t, probe, fail, thumbnail) ==
  LET supported == isSupported(u, ls, probe)
      existing == findExistingItem(d, l, supported.useDexie, ls,
                                   file.name, FileSize(file), fail)
      id == GenerateId(t)
      historyItem == NewItem(id, file, t, thumbnail)
      saved == saveToLocalStorage(l, ls, historyItem)
      added == d \cup {historyItem}
  IN IF ~supported.ret
     THEN Result(d, l, supported.useDexie, TRUE, Null, FALSE, FALSE, "none")
     ELSE IF existing.item # Null
     THEN moveToTop(d, l, existing.useDexie, ls, existing.item[1].id, t, fail,
                    existing.used, existing.failed)
     ELSE IF ~existing.useDexie
     THEN Result(d, saved.local, FALSE, saved.threw, saved.ret,
                 existing.used, existing.failed, "insert")
     ELSE IF fail = "add" \/ dexieGet(d, id) # Null
     THEN Result(d, saved.local, FALSE, saved.threw, saved.ret, TRUE, TRUE, "insert")
     ELSE IF fail = "cleanup"
     THEN Result(added, saved.local, FALSE, saved.threw, saved.ret, TRUE, TRUE, "insert")
     ELSE Result(cleanupOldItemsDexie(added), l, TRUE, FALSE, id, TRUE, FALSE, "insert")

\* getHistory that returns the stored order: Dexie's orderBy('timestamp')
\* without reverse(), the localStorage array without sort
getHistoryStoredOrder(d, l, u, ls, probe, fail) ==
  LET supported == isSupported(u, ls, probe)
      fromLocal == getLocalStorageHistory(l, ls)
      newestFirst == OrderByTimestampReverse(d)
      oldestFirst == [i \in 1..Len(newestFirst) |->
                        newestFirst[Len(newestFirst) + 1 - i]]
  IN IF ~supported.ret
     THEN Result(d, l, supported.useDexie, FALSE, <<>>, FALSE, FALSE, "none")
     ELSE IF ~supported.useDexie
     THEN Result(d, l, FALSE, FALSE, fromLocal, FALSE, FALSE, "none")
     ELSE IF fail = "read"
     THEN Result(d, l, FALSE, FALSE, fromLocal, TRUE, TRUE, "none")
     ELSE Result(d, l, TRUE, FALSE, oldestFirst, TRUE, FALSE, "none")

\* getHistory: most recent first, from Dexie or (on a throw) localStorage
getHistory(d, l, u, ls, probe, fail) ==
  LET supported == isSupported(u, ls, probe)
      fromLocal == SortByTimestampDesc(getLocalStorageHistory(l, ls))
  IN IF ~supported.ret
     THEN Result(d, l, supported.useDexie, FALSE, <<>>, FALSE, FALSE, "none")
     ELSE IF ~supported.useDexie
     THEN Result(d, l, FALSE, FALSE, fromLocal, FALSE, FALSE, "none")
     ELSE IF fail = "read"
     THEN Result(d, l, FALSE, FALSE, fromLocal, TRUE, TRUE, "none")
     ELSE Result(d, l, TRUE, FALSE, OrderByTimestampReverse(d), TRUE, FALSE, "none")

\* getHistoryItem(id): the entry or null
getHistoryItem(d, l, u, ls, id, probe, fail) ==
  LET supported == isSupported(u, ls, probe)
      fromLocal == findInLocalStorageById(l, ls, id)
  IN IF ~supported.ret
     THEN Result(d, l, supported.useDexie, FALSE, Null, FALSE, FALSE, "none")
     ELSE IF ~supported.useDexie
     THEN Result(d, l, FALSE, FALSE, fromLocal, FALSE, FALSE, "none")
     ELSE IF fail = "read"
     THEN Result(d, l, FALSE, FALSE, fromLocal, TRUE, TRUE, "none")
     ELSE Result(d, l, TRUE, FALSE, dexieGet(d, id), TRUE, FALSE, "none")

\* deleteHistoryItem(id): true unless no storage or localStorage throws
deleteHistoryItem(d, l, u, ls, id, probe, fail) ==
  LET supported == isSupported(u, ls, probe)
      fromLocal == deleteFromLocalStorage(l, ls, id)
  IN IF ~supported.ret
     THEN Result(d, l, supported.useDexie, FALSE, FALSE, FALSE, FALSE, "none")
     ELSE IF ~supported.useDexie
     THEN Result(d, fromLocal.local, FALSE, FALSE, fromLocal.ret, FALSE, FALSE, "none")
     ELSE IF fail = "delete"
     THEN Result(d, fromLocal.local, FALSE, FALSE, fromLocal.ret, TRUE, TRUE, "none")
     ELSE Result({x \in d : x.id # id}, l, TRUE, FALSE, TRUE, TRUE, FALSE, "none")

\* clearHistory: empty the active backend
clearHistory(d, l, u, ls, probe, fail) ==
  LET supported == isSupported(u, ls, probe)
      fromLocal == clearLocalStorage(l, ls)
  IN IF ~supported.ret
     THEN Result(d, l, supported.useDexie, FALSE, Null, FALSE, FALSE, "none")
     ELSE IF ~supported.useDexie
     THEN Result(d, fromLocal.local, FALSE, fromLocal.threw, Null, FALSE, FALSE, "none")
     ELSE IF fail = "clear"
     THEN Result(d, fromLocal.local, FALSE, fromLocal.threw, Null, TRUE, TRUE, "none")
     ELSE Result({}, l, TRUE, FALSE, Null, TRUE, FALSE, "none")

-----------------------------------------------------------------------------
(* The history service as a state machine: one action per public operation, *)
(* called one after the other (each call completes before the next starts). *)

\* the entries of the backend selected by flag u, as a set
BackendRows(d, l, u) == IF u THEN d ELSE {l[i] : i \in 1..Len(l)}

\* number of stored entries of the backend selected by u (array length for
\* localStorage, which may repeat an entry)
BackendLen(d, l, u) == IF u THEN Cardinality(d) ELSE Len(l)

\* number of entries of the backend selected by u with that name and size
KeyCount(d, l, u, name, size) ==
  IF u THEN Cardinality({x \in d : x.name = name /\ x.size = size})
  ELSE Cardinality({i \in 1..Len(l) : l[i].name = name /\ l[i].size = size})

StoredIds == {x.id : x \in dexie} \cup {local[i].id : i \in 1..Len(local)}

NoOp ==
  [op |-> "init", threw |-> FALSE, ret |-> Null, usedDexie |-> FALSE,
   failed |-> FALSE, failedBefore |-> FALSE, path |-> "none", time |-> 0,
   file |-> Null, arg |-> Null, preKeyCount |-> 0, preLen |-> 0,
   existingData |-> Null]

\* the record kept of a completed call with result r
LastOf(op, r, file, arg) ==
  [op |-> op, threw |-> r.threw, ret |-> r.ret, usedDexie |-> r.usedDexie,
   failed |-> r.failed, failedBefore |-> everFailed, path |-> r.path,
   time |-> now, file |-> file, arg |-> arg,
   preKeyCount |-> IF file = Null THEN 0
                   ELSE KeyCount(dexie, local, r.useDexie,
                                 file[1].name, FileSize(file[1])),
   preLen |-> BackendLen(dexie, local, r.useDexie),
   existingData |->
     IF file = Null THEN Null
     ELSE LET hits == {x \in BackendRows(dexie, local, r.useDexie) :
                         x.name = file[1].name /\ x.size = FileSize(file[1])}
          IN IF Cardinality(hits) = 1
             THEN Some((CHOOSE x \in hits : TRUE).data) ELSE Null]

\* the effect of a completed call on the service and on the bookkeeping.
\* Every call awaits the storage probe and at least one storage round trip,
\* so the clock it reads is later than the clock of the call before it.
Apply(op, r, file, arg) ==
  /\ dexie' = r.dexie
  /\ local' = r.local
  /\ useDexie' = r.useDexie
  /\ everFailed' = (everFailed \/ r.failed)
  /\ last' = LastOf(op, r, file, arg)
  /\ opCount' = opCount + 1
  /\ now' = now + 1
  /\ UNCHANGED lsAvail
  /\ UNCHANGED vvars
  /\ UNCHANGED svars
  /\ UNCHANGED <<fvars, dvars>>
  /\ UNCHANGED avars
  /\ UNCHANGED pvars

HInit ==
  /\ dexie = {}
  /\ local = <<>>
  /\ useDexie = TRUE
  /\ lsAvail \in BOOLEAN
  /\ now = 1
  /\ last = NoOp
  /\ everFailed = FALSE
  /\ opCount = 0
  /\ pure = TRUE
  /\ inserted = {}

\* the hooks before the first load request
VIdle ==
  /\ loadingState = "idle"
  /\ currentModel = NoModel
  /\ currentFile = Null
  /\ progress = [loaded |-> 0, total |-> 0]
  /\ error = "none"
  /\ sceneModel = NoModel
  /\ reqs = <<>>
  /\ onModelLoadCalls = [r \in 1..MaxReq |-> 0]
  /\ onErrorCalls = [r \in 1..MaxReq |-> 0]
  /\ rerenders = 0

\* no file name has been handed to the format functions
FormatIdle ==
  /\ inputName = <<>>
  /\ resolved = <<>>

\* no call of addToHistory is in flight
AddsIdle == addCalls = <<>>

\* the controllers before the first event: the initial field values of
\* SceneService and of touchStateRef, the listeners registered by initialize
PointerIdle ==
  /\ isMouseDown = FALSE
  /\ previousMousePosition = [x |-> 0, y |-> 0]
  /\ modelRotation = [x |-> 0, y |-> 0]
  /\ rotation = [x |-> 0, y |-> 0]
  /\ cameraRoll = 0
  /\ touchState = [isActive |-> FALSE, touches |-> <<>>, lastDistance |-> 0,
                   lastAngle |-> 0]
  /\ surface = [fingers |-> <<>>, phase |-> "none"]
  /\ listening = TRUE
  /\ teardown = <<>>
  /\ lastEvent = [type |-> "none", x |-> 0, y |-> 0]
  /\ events = 0

\* the scene before a model is added: the camera of the default
\* configuration, no loaded model
\* no SceneService has been constructed
ServicesIdle ==
  /\ instance = 0
  /\ threeConfigs = <<>>
  /\ sceneServices = <<>>
  /\ windowListeners = {}
  /\ frames = {}
  /\ lastFrame = [service |-> 0, rendered |-> FALSE]
  /\ resized = {}

SceneIdle ==
  /\ loadedModel = <<>>
  /\ cameraPosition = [x |-> <<0, 1>>, y |-> <<2, 1>>, z |-> <<5, 1>>]
  /\ cameraTarget = [x |-> <<0, 1>>, y |-> <<0, 1>>, z |-> <<0, 1>>]
  /\ orbit = [radius |-> <<5, 1>>, phi |-> 12, theta |-> 0]
  /\ divisions = 0
  /\ placements = 0

\* the service on its own: one instance, called by a single caller
SInit == HInit /\ VIdle /\ SceneIdle /\ FormatIdle /\ AddsIdle /\ PointerIdle /\ ServicesIdle /\ hook = "viewer"

AddToHistory ==
  /\ opCount < MaxOps
  /\ \E file \in Files, probe \in BOOLEAN,
        fail \in {"none", "find", "get", "put", "add", "cleanup"},
        thumbnail \in {generateThumbnail(throwsAt) : throwsAt \in ThumbnailSteps} :
       LET r == addToHistory(dexie, local, useDexie, lsAvail, file, now,
                             probe, fail, thumbnail)
       IN /\ Apply("add", r, Some(file), Null)
          /\ pure' = /\ pure
                     /\ ~r.threw /\ ~r.failed /\ r.path = "insert"
                     /\ (opCount > 0 => r.useDexie = useDexie)
          /\ inserted' = IF pure'
                         THEN inserted \cup {[id |-> r.ret, timestamp |-> now]}
                         ELSE {}

GetHistory ==
  /\ opCount < MaxOps
  /\ \E probe \in BOOLEAN, fail \in {"none", "read"} :
       Apply("list", getHistory(dexie, local, useDexie, lsAvail, probe, fail),
             Null, Null)
  /\ pure' = FALSE
  /\ inserted' = {}

GetHistoryItem ==
  /\ opCount < MaxOps
  /\ \E id \in StoredIds, probe \in BOOLEAN, fail \in {"none", "read"} :
       Apply("get", getHistoryItem(dexie, local, useDexie, lsAvail, id, probe, fail),
             Null, Some(id))
  /\ pure' = FALSE
  /\ inserted' = {}

DeleteHistoryItem ==
  /\ opCount < MaxOps
  /\ \E id \in StoredIds, probe \in BOOLEAN, fail \in {"none", "delete"} :
       Apply("delete",
             deleteHistoryItem(dexie, local, useDexie, lsAvail, id, probe, fail),
             Null, Some(id))
  /\ pure' = FALSE
  /\ inserted' = {}

ClearHistory ==
  /\ opCount < MaxOps
  /\ \E probe \in BOOLEAN, fail \in {"none", "clear"} :
       Apply("clear", clearHistory(dexie, local, useDexie, lsAvail, probe, fail),
             Null, Null)
  /\ pure' = FALSE
  /\ inserted' = {}

HNext ==
  \/ AddToHistory
  \/ GetHistory
  \/ GetHistoryItem
  \/ DeleteHistoryItem
  \/ ClearHistory

Spec == SInit /\ [][HNext]_vars

TypeOK == now = opCount + 1 /\ opCount \in 0..MaxOps

-----------------------------------------------------------------------------
(* Two overlapping calls of addToHistory for the same file.  Every await of *)
(* the method is a point where the other call can run; the service object   *)
(* (useDexie) and the stores are shared.                                    *)

\* the file both calls add
SameFile == [name |-> NameA, data |-> <<0>>]

\* the entries stored before the two calls start: none, one of another
\* file, or one of the same (name, size)
EarlierEntries ==
  {{}, {NewItem(GenerateId(1), [name |-> NameB, data |-> <<0>>], 1, "png")},
   {NewItem(GenerateId(1), SameFile, 1, "png")}}

\* a call that has not passed its first await
NewCall ==
  [pc |-> "probe", id |-> 0, held |-> Null, stamp |-> 0, threw |-> FALSE,
   ret |-> Null]

\* the call moves on
Goto(p, pc) == addCalls' = [addCalls EXCEPT ![p].pc = pc]

\* the call completes with a value or with an exception
Finish(p, threw, ret) ==
  addCalls' = [addCalls EXCEPT ![p].pc = "done", ![p].threw = threw,
                               ![p].ret = ret]

\* every step of a call takes time
Tick == now' = now + 1

\* const supported = await this.isSupported(); throw when unsupported
CallProbe(p) ==
  /\ addCalls[p].pc = "probe"
  /\ \E probe \in BOOLEAN :
       LET supported == isSupported(useDexie, lsAvail, probe)
       IN /\ useDexie' = supported.useDexie
          /\ IF supported.ret THEN Goto(p, "find") ELSE Finish(p, TRUE, Null)
  /\ Tick
  /\ UNCHANGED <<dexie, local, lsAvail, gvars, vvars, svars, fvars, dvars, pvars>>

\* const existingItem = await this.findExistingItem(name, size); on a match
\* the call enters moveToTop, else it generates the id and goes on to the
\* thumbnail
CallFind(p) ==
  /\ addCalls[p].pc = "find"
  /\ LET existing == findExistingItem(dexie, local, useDexie, lsAvail,
                                      SameFile.name, FileSize(SameFile), "none")
     IN /\ useDexie' = existing.useDexie
        /\ addCalls' =
             [addCalls EXCEPT
                ![p].pc = IF existing.item = Null THEN "thumbnail" ELSE "get",
                ![p].id = IF existing.item = Null THEN GenerateId(now)
                          ELSE existing.item[1].id]
  /\ Tick
  /\ UNCHANGED <<dexie, local, lsAvail, gvars, vvars, svars, fvars, dvars, pvars>>

\* moveToTop up to its first await: db.history.get(id); without Dexie, or
\* when the row is gone, moveToTopInLocalStorage
CallGet(p) ==
  /\ addCalls[p].pc = "get"
  /\ LET id == addCalls[p].id
         fallback == moveToTopInLocalStorage(local, lsAvail, id, now)
     IN IF useDexie /\ dexieGet(dexie, id) # Null
        THEN /\ addCalls' =
                  [addCalls EXCEPT
                     ![p].pc = "put",
                     ![p].held = Some([dexieGet(dexie, id)[1]
                                         EXCEPT !.timestamp = now])]
             /\ UNCHANGED <<local, useDexie>>
        ELSE /\ local' = fallback.local
             /\ useDexie' = FALSE
             /\ Finish(p, fallback.threw, fallback.ret)
  /\ Tick
  /\ UNCHANGED <<dexie, lsAvail, gvars, vvars, svars, fvars, dvars, pvars>>

\* await db.history.put(item); return id
CallPut(p) ==
  /\ addCalls[p].pc = "put"
  /\ dexie' = dexiePut(dexie, addCalls[p].held[1])
  /\ Finish(p, FALSE, addCalls[p].id)
  /\ Tick
  /\ UNCHANGED <<local, useDexie, lsAvail, gvars, vvars, svars, fvars, dvars, pvars>>

\* const thumbnail = await this.generateThumbnail(model)
CallThumbnail(p) ==
  /\ addCalls[p].pc = "thumbnail"
  /\ Goto(p, "bytes")
  /\ Tick
  /\ UNCHANGED <<dexie, local, useDexie, lsAvail, gvars, vvars, svars, fvars, dvars,
                 pvars>>

\* data: await file.arrayBuffer(), then timestamp: Date.now()
CallBytes(p) ==
  /\ addCalls[p].pc = "bytes"
  /\ addCalls' = [addCalls EXCEPT ![p].pc = "insert", ![p].stamp = now]
  /\ Tick
  /\ UNCHANGED <<dexie, local, useDexie, lsAvail, gvars, vvars, svars, fvars, dvars,
                 pvars>>

\* await db.history.add(historyItem), or saveToLocalStorage(historyItem)
CallInsert(p) ==
  /\ addCalls[p].pc = "insert"
  /\ LET historyItem == NewItem(addCalls[p].id, SameFile, addCalls[p].stamp,
                                generateThumbnail("none"))
         saved == saveToLocalStorage(local, lsAvail, historyItem)
     IN IF useDexie /\ dexieGet(dexie, historyItem.id) = Null
        THEN /\ dexie' = dexie \cup {historyItem}
             /\ Goto(p, "cleanup")
             /\ UNCHANGED <<local, useDexie>>
        ELSE /\ local' = saved.local
             /\ useDexie' = FALSE
             /\ Finish(p, saved.threw, saved.ret)
             /\ UNCHANGED dexie
  /\ Tick
  /\ UNCHANGED <<lsAvail, gvars, vvars, svars, fvars, dvars, pvars>>

\* await this.cleanupOldItemsDexie(); return id
CallCleanup(p) ==
  /\ addCalls[p].pc = "cleanup"
  /\ dexie' = cleanupOldItemsDexie(dexie)
  /\ Finish(p, FALSE, addCalls[p].id)
  /\ Tick
  /\ UNCHANGED <<local, useDexie, lsAvail, gvars, vvars, svars, fvars, dvars, pvars>>

Probed == \E p \in DOMAIN addCalls : CallProbe(p)

Found == \E p \in DOMAIN addCalls : CallFind(p)

Got == \E p \in DOMAIN addCalls : CallGet(p)

Put == \E p \in DOMAIN addCalls : CallPut(p)

ThumbnailMade == \E p \in DOMAIN addCalls : CallThumbnail(p)

BytesRead == \E p \in DOMAIN addCalls : CallBytes(p)

Inserted == \E p \in DOMAIN addCalls : CallInsert(p)

CleanedUp == \E p \in DOMAIN addCalls : CallCleanup(p)

\* both calls have been made; the stores hold what earlier calls left
AInit ==
  /\ dexie \in EarlierEntries
  /\ local = <<>>
  /\ useDexie = TRUE
  /\ lsAvail \in BOOLEAN
  /\ now = 2
  /\ last = NoOp /\ everFailed = FALSE /\ opCount = 0 /\ pure = TRUE
  /\ inserted = {}
  /\ VIdle /\ SceneIdle /\ FormatIdle /\ PointerIdle /\ ServicesIdle /\ hook = "viewer"
  /\ addCalls = <<NewCall, NewCall>>

ANext ==
  \/ Probed
  \/ Found
  \/ Got
  \/ Put
  \/ ThumbnailMade
  \/ BytesRead
  \/ Inserted
  \/ CleanedUp

SpecConcurrentAdd == AInit /\ [][ANext]_vars

-----------------------------------------------------------------------------
(* File formats and validation, as the hooks use them *)

NameTxt == <<"a", ".", "t", "x", "t">>

\* the own keys of FILE_FORMATS
FormatKeys ==
  {<<"o", "b", "j">>, <<"f", "b", "x">>, <<"s", "t", "l">>, <<"p", "l", "y">>,
   <<"d", "a", "e">>, <<"3", "d", "s">>, <<"g", "l", "t", "f">>,
   <<"g", "l", "b">>, <<"3", "m", "f">>}

\* the lower-case property names FILE_FORMATS inherits from Object.prototype
InheritedKeys ==
  {<<"c", "o", "n", "s", "t", "r", "u", "c", "t", "o", "r">>,
   <<"_", "_", "p", "r", "o", "t", "o", "_", "_">>}

\* FILE_FORMATS: the loader and the readAs of each own key
FILE_FORMATS ==
  [ext \in FormatKeys |->
     CASE ext = <<"o", "b", "j">> -> [loader |-> "obj", readAs |-> "text"]
       [] ext = <<"f", "b", "x">> -> [loader |-> "fbx", readAs |-> "arrayBuffer"]
       [] ext = <<"s", "t", "l">> -> [loader |-> "stl", readAs |-> "arrayBuffer"]
       [] ext = <<"p", "l", "y">> -> [loader |-> "ply", readAs |-> "arrayBuffer"]
       [] ext = <<"d", "a", "e">> -> [loader |-> "collada", readAs |-> "text"]
       [] ext = <<"3", "d", "s">> -> [loader |-> "obj", readAs |-> "arrayBuffer"]
       [] ext = <<"g", "l", "t", "f">> ->
            [loader |-> "gltf", readAs |-> "arrayBuffer"]
       [] ext = <<"g", "l", "b">> -> [loader |-> "gltf", readAs |-> "arrayBuffer"]
       [] ext = <<"3", "m", "f">> -> [loader |-> "stl", readAs |-> "arrayBuffer"]]

\* what FILE_FORMATS inherits under 'constructor' and '__proto__': an object
\* (truthy) without loader and readAs
InheritedValue == [loader |-> "undefined", readAs |-> "undefined"]

\* FILE_FORMATS[ext]: the own entry, the inherited object, or undefined (Null)
PropertyOf(ext) ==
  IF ext \in FormatKeys THEN Some(FILE_FORMATS[ext])
  ELSE IF ext \in InheritedKeys THEN Some(InheritedValue)
  ELSE Null

\* getFileExtension without toLowerCase
getFileExtensionCaseSensitive(filename) ==
  LET ext == LastSegment(filename)
  IN IF ext # <<>> /\ ext \in FormatKeys \cup InheritedKeys
     THEN Some(ext) ELSE Null

\* getFileExtension: filename.toLowerCase().split('.').pop(), kept when it is
\* non-empty and `in FILE_FORMATS` (the operator `in` also sees inherited keys)
getFileExtension(filename) ==
  LET ext == LastSegment(ToLowerCase(filename))
  IN IF ext # <<>> /\ ext \in FormatKeys \cup InheritedKeys
     THEN Some(ext) ELSE Null

\* getFileFormat: FILE_FORMATS[extension.toLowerCase()] || null
getFileFormat(extension) == PropertyOf(ToLowerCase(extension))

\* the input the parser of a loader strategy takes: OBJLoaderStrategy and
\* ColladaLoaderStrategy parse a string, the other four an ArrayBuffer
StrategyInput(loader) ==
  IF loader \in {"obj", "collada"} THEN "text" ELSE "binary"

\* loadFromFile: readAsArrayBuffer when format.readAs is 'arrayBuffer',
\* readAsText otherwise; the result is handed to the strategy
readInput(format) ==
  IF format.readAs = "arrayBuffer" THEN "binary" ELSE "text"

\* loadFromHistory: historyItem.data, the ArrayBuffer addToHistory stored, is
\* handed to loadModel whatever the format
restoredInput(format) == "binary"

\* validateFile of FileValidationService and of FileHandlingService: the
\* code of the error, or "none"
validateFile(file) ==
  IF FileSize(file) > MaxFileSize THEN "FILE_TOO_LARGE"
  ELSE IF getFileExtension(file.name) = Null THEN "UNSUPPORTED_FORMAT"
  ELSE "none"

\* a file one byte over the limit
BigFile == [name |-> NameA, data |-> [i \in 1..(MaxFileSize + 1) |-> 0]]

\* the files the user drops or selects: two valid ones, one too large, one
\* with an unsupported extension
ViewerFiles ==
  {[name |-> NameA, data |-> <<0>>], [name |-> NameB, data |-> <<0>>],
   BigFile, [name |-> NameTxt, data |-> <<0>>]}

\* the THREE.Object3D that request r obtained by parsing ("parsed": in
\* handleFileLoad, "restored": in loadFromHistory)
Model(r, how) == <<r, how>>

-----------------------------------------------------------------------------
(* useModelHistory, the hook between useModelViewer and the service *)

\* addToHistory that lets the error of the service escape
hookAddToHistoryRethrows(d, l, u, ls, file, t, probe, fail, thumbnail, fail2) ==
  LET supported == isSupported(u, ls, probe)
      added == addToHistory(d, l, supported.useDexie, ls, file, t, probe, fail,
                            thumbnail)
      refreshed == getHistory(added.dexie, added.local, added.useDexie, ls,
                              probe, fail2)
  IN IF ~supported.ret
     THEN [dexie |-> d, local |-> l, useDexie |-> supported.useDexie,
           threw |-> FALSE, reported |-> TRUE, saved |-> "unsupported"]
     ELSE IF added.threw
     THEN [dexie |-> added.dexie, local |-> added.local,
           useDexie |-> added.useDexie,
           threw |-> TRUE, reported |-> FALSE, saved |-> "error"]
     ELSE [dexie |-> refreshed.dexie, local |-> refreshed.local,
           useDexie |-> refreshed.useDexie,
           threw |-> FALSE, reported |-> FALSE, saved |-> "ok"]

\* useModelHistory.addToHistory: probe, service.addToHistory, refreshHistory;
\* every failure is caught and reported through onError (reported), the
\* promise never rejects (threw)
hookAddToHistory(d, l, u, ls, file, t, probe, fail, thumbnail, fail2) ==
  LET supported == isSupported(u, ls, probe)
      added == addToHistory(d, l, supported.useDexie, ls, file, t, probe, fail,
                            thumbnail)
      refreshed == getHistory(added.dexie, added.local, added.useDexie, ls,
                              probe, fail2)
  IN IF ~supported.ret
     THEN [dexie |-> d, local |-> l, useDexie |-> supported.useDexie,
           threw |-> FALSE, reported |-> TRUE, saved |-> "unsupported"]
     ELSE IF added.threw
     THEN [dexie |-> added.dexie, local |-> added.local,
           useDexie |-> added.useDexie,
           threw |-> FALSE, reported |-> TRUE, saved |-> "error"]
     ELSE [dexie |-> refreshed.dexie, local |-> refreshed.local,
           useDexie |-> refreshed.useDexie,
           threw |-> FALSE, reported |-> FALSE, saved |-> "ok"]

\* useModelHistory.loadFromHistory: probe, getHistoryItem, rebuild the File,
\* look up the format, parse the stored bytes; ret is the rebuilt file, or
\* null after a failure, which is reported through onError.  The bytes of an
\* entry are those of a file that parsed when it was loaded, so they parse
\* again when the strategy is handed the input it takes; the empty buffer of
\* an entry read from localStorage parses or not (parseOk).
hookLoadFromHistory(d, l, u, ls, id, probe, fail, parseOk) ==
  LET supported == isSupported(u, ls, probe)
      got == getHistoryItem(d, l, supported.useDexie, ls, id, probe, fail)
      historyItem == got.ret[1]
      file == [name |-> historyItem.name, data |-> historyItem.data]
      format == getFileFormat(historyItem.format)
      parses == /\ StrategyInput(format[1].loader) = restoredInput(format[1])
                /\ (historyItem.data # EmptyData \/ parseOk)
  IN IF ~supported.ret
     THEN [useDexie |-> supported.useDexie, ret |-> Null, why |-> "storage"]
     ELSE IF got.ret = Null
     THEN [useDexie |-> got.useDexie, ret |-> Null, why |-> "storage"]
     ELSE IF format = Null \/ ~parses
     THEN [useDexie |-> got.useDexie, ret |-> Null, why |-> "parse"]
     ELSE [useDexie |-> got.useDexie, ret |-> Some(file), why |-> "none"]

-----------------------------------------------------------------------------
(* The hooks as a state machine.  A load request is one call of             *)
(* handleFileLoad or of loadModelFromHistory; its awaits are the points     *)
(* where another request can run.                                           *)

NoFile == [name |-> <<>>, data |-> <<>>]

\* what is shown and stored when a call of handleFileLoad starts
Snapshot ==
  [sceneModel |-> sceneModel, currentModel |-> currentModel,
   currentFile |-> currentFile, progress |-> progress, ids |-> StoredIds]

\* the record of a request that starts now
NewReq(kind, file, id) ==
  [kind |-> kind, file |-> file, id |-> id, pc |-> "new", outcome |-> "pending",
   saved |-> "none", overtaken |-> FALSE, start |-> Snapshot]

\* request b has completed: every earlier request still in flight is overtaken
MarkOvertaken(rs, b) ==
  [a \in DOMAIN rs |->
     IF a < b /\ rs[a].pc \in {"restoring", "restored", "reading"}
     THEN [rs[a] EXCEPT !.overtaken = TRUE] ELSE rs[a]]

Bump(calls, r, n) == [calls EXCEPT ![r] = calls[r] + n]

\* useModelViewer.handleFileLoad(file) up to its first await
ViewerStart(r, file, rs) ==
  LET validationError == validateFile(file)
  IN IF validationError # "none"
     THEN /\ error' = validationError
          /\ onErrorCalls' = Bump(onErrorCalls, r, 1)
          /\ reqs' = [rs EXCEPT ![r].pc = "done", ![r].outcome = "invalid"]
          /\ UNCHANGED <<loadingState, progress>>
     ELSE /\ error' = "none"
          /\ loadingState' = "loading"
          /\ progress' = [loaded |-> 0, total |-> FileSize(file)]
          /\ reqs' = [rs EXCEPT ![r].pc = "reading"]
          /\ UNCHANGED onErrorCalls

\* useModelViewerLogic.handleFileLoad(file) up to its first await, and, when
\* readFile rejects at once, the catch that runs right after it: readFile
\* has called onError itself before rejecting
LogicStart(r, file, rs) ==
  LET validationError == validateFile(file)
  IN /\ progress' = [loaded |-> 0, total |-> FileSize(file)]
     /\ UNCHANGED error
     /\ IF validationError # "none"
        THEN /\ loadingState' = "error"
             /\ onErrorCalls' = Bump(onErrorCalls, r, 2)
             /\ reqs' = [rs EXCEPT ![r].pc = "done", ![r].outcome = "invalid"]
        ELSE /\ loadingState' = "loading"
             /\ reqs' = [rs EXCEPT ![r].pc = "reading"]
             /\ UNCHANGED onErrorCalls

\* the user drops or selects a file: handleFileDrop / handleFileSelect
HandleFileLoad ==
  /\ Len(reqs) < MaxReq
  /\ \E file \in ViewerFiles :
       LET r == Len(reqs) + 1
           rs == Append(reqs, NewReq("file", file, 0))
       IN IF hook = "viewer" THEN ViewerStart(r, file, rs)
          ELSE LogicStart(r, file, rs)
  /\ UNCHANGED <<hvars, svars, fvars, dvars, avars, pvars, hook, currentModel, currentFile, sceneModel,
                 onModelLoadCalls, rerenders>>

\* LoadSucceeded without setLoadingState('success')
LoadSucceededStaysLoading(r) ==
  /\ reqs[r].pc = "reading"
  /\ sceneModel' = Model(r, "parsed")
  /\ currentModel' = Model(r, "parsed")
  /\ IF hook = "viewer"
     THEN /\ currentFile' = Some(reqs[r].file)
          /\ reqs' = [reqs EXCEPT ![r].pc = "saving", ![r].outcome = "loaded"]
          /\ UNCHANGED onModelLoadCalls
     ELSE /\ onModelLoadCalls' = Bump(onModelLoadCalls, r, 1)
          /\ reqs' = MarkOvertaken(
                       [reqs EXCEPT ![r].pc = "done", ![r].outcome = "loaded"], r)
          /\ UNCHANGED currentFile
  /\ UNCHANGED <<hvars, svars, fvars, dvars, avars, pvars, hook, progress, error, onErrorCalls, rerenders,
                 loadingState>>

\* the read and the parse of request r succeed.  useModelViewer: addModel,
\* setCurrentModel, setCurrentFile, setLoadingState('success'), then the
\* await of history.addToHistory.  useModelViewerLogic: setCurrentModel, and
\* the effect on currentModel: addModel, 'success', onModelLoad.
LoadSucceeded(r) ==
  /\ reqs[r].pc = "reading"
  /\ sceneModel' = Model(r, "parsed")
  /\ currentModel' = Model(r, "parsed")
  /\ loadingState' = "success"
  /\ IF hook = "viewer"
     THEN /\ currentFile' = Some(reqs[r].file)
          /\ reqs' = [reqs EXCEPT ![r].pc = "saving", ![r].outcome = "loaded"]
          /\ UNCHANGED onModelLoadCalls
     ELSE /\ onModelLoadCalls' = Bump(onModelLoadCalls, r, 1)
          /\ reqs' = MarkOvertaken(
                       [reqs EXCEPT ![r].pc = "done", ![r].outcome = "loaded"], r)
          /\ UNCHANGED currentFile
  /\ UNCHANGED <<hvars, svars, fvars, dvars, avars, pvars, hook, progress, error, onErrorCalls, rerenders>>

\* LoadFailed that also takes the model out of the scene
LoadFailedRemovesModel(r, why) ==
  /\ reqs[r].pc = "reading"
  /\ loadingState' = "error"
  /\ reqs' = [reqs EXCEPT ![r].pc = "done", ![r].outcome = "failed"]
  /\ IF hook = "viewer"
     THEN /\ error' = "LOAD_ERROR"
          /\ onErrorCalls' = Bump(onErrorCalls, r, 1)
     ELSE /\ onErrorCalls' = Bump(onErrorCalls, r, IF why = "read" THEN 2 ELSE 1)
          /\ UNCHANGED error
  /\ sceneModel' = NoModel
  /\ UNCHANGED <<hvars, svars, fvars, dvars, avars, pvars, hook, currentModel, currentFile, progress,
                 onModelLoadCalls, rerenders>>

\* the read (why = "read") or the parse (why = "parse") of request r fails
\* and the catch of handleFileLoad runs.  In useModelViewerLogic a failed
\* read has already called onError inside FileHandlingService.readFile.
LoadFailed(r, why) ==
  /\ reqs[r].pc = "reading"
  /\ loadingState' = "error"
  /\ reqs' = [reqs EXCEPT ![r].pc = "done", ![r].outcome = "failed"]
  /\ IF hook = "viewer"
     THEN /\ error' = "LOAD_ERROR"
          /\ onErrorCalls' = Bump(onErrorCalls, r, 1)
     ELSE /\ onErrorCalls' = Bump(onErrorCalls, r, IF why = "read" THEN 2 ELSE 1)
          /\ UNCHANGED error
  /\ UNCHANGED <<hvars, svars, fvars, dvars, avars, pvars, hook, currentModel, currentFile, progress, sceneModel,
                 onModelLoadCalls, rerenders>>

\* useModelViewer.handleFileLoad after `await history.addToHistory`: the
\* call of onModelLoad, or the catch when the await rejects.  The thumbnail
\* of a model that parsed is rendered; the service on its own (Spec) also
\* covers a renderer that throws.
HistorySaved(r) ==
  /\ hook = "viewer"
  /\ reqs[r].pc = "saving"
  /\ \E probe \in BOOLEAN, fail \in {"none", "find", "put", "add", "cleanup"},
        thumbnail \in {"png"}, fail2 \in {"none", "read"} :
       LET h == hookAddToHistory(dexie, local, useDexie, lsAvail, reqs[r].file,
                                 now, probe, fail, thumbnail, fail2)
       IN /\ dexie' = h.dexie
          /\ local' = h.local
          /\ useDexie' = h.useDexie
          /\ IF h.threw
             THEN /\ error' = "LOAD_ERROR"
                  /\ loadingState' = "error"
                  /\ onErrorCalls' = Bump(onErrorCalls, r, 1)
                  /\ reqs' = [reqs EXCEPT ![r].pc = "done", ![r].saved = h.saved]
                  /\ UNCHANGED onModelLoadCalls
             ELSE /\ error' = IF h.reported THEN "PERSISTENCE_ERROR" ELSE error
                  /\ onErrorCalls' =
                       Bump(onErrorCalls, r, IF h.reported THEN 1 ELSE 0)
                  /\ onModelLoadCalls' = Bump(onModelLoadCalls, r, 1)
                  /\ reqs' = MarkOvertaken(
                               [reqs EXCEPT ![r].pc = "done",
                                            ![r].saved = h.saved], r)
                  /\ UNCHANGED loadingState
  /\ now' = now + 1
  /\ UNCHANGED <<lsAvail, gvars, svars, fvars, dvars, avars, pvars, hook, currentModel, currentFile, progress,
                 sceneModel, rerenders>>

\* the user picks an entry of the history list: loadModelFromHistory(id)
LoadModelFromHistory ==
  /\ hook = "viewer"
  /\ Len(reqs) < MaxReq
  /\ \E id \in StoredIds :
       reqs' = Append(reqs, [NewReq("restore", NoFile, id)
                               EXCEPT !.pc = "restoring"])
  /\ UNCHANGED <<hvars, svars, fvars, dvars, avars, pvars, hook, loadingState, currentModel, currentFile, progress,
                 error, sceneModel, onModelLoadCalls, onErrorCalls, rerenders>>

\* history.loadFromHistory(id) settles: on success onModelRestored runs
\* (setCurrentFile, setCurrentModel, 'success', onModelLoad), on failure the
\* history onError (setError with PERSISTENCE_ERROR, onError)
RestoreSettled(r) ==
  /\ reqs[r].pc = "restoring"
  /\ \E probe \in BOOLEAN, fail \in {"none", "read"}, parseOk \in BOOLEAN :
       LET h == hookLoadFromHistory(dexie, local, useDexie, lsAvail, reqs[r].id,
                                    probe, fail, parseOk)
       IN /\ useDexie' = h.useDexie
          /\ IF h.ret = Null
             THEN /\ error' = "PERSISTENCE_ERROR"
                  /\ onErrorCalls' = Bump(onErrorCalls, r, 1)
                  /\ reqs' = [reqs EXCEPT
                               ![r].pc = "done",
                               ![r].outcome = IF h.why = "parse"
                                              THEN "restoreUnparsed"
                                              ELSE "restoreFailed"]
                  /\ UNCHANGED <<currentFile, currentModel, loadingState,
                                 onModelLoadCalls>>
             ELSE /\ currentFile' = h.ret
                  /\ currentModel' = Model(r, "restored")
                  /\ loadingState' = "success"
                  /\ onModelLoadCalls' = Bump(onModelLoadCalls, r, 1)
                  /\ reqs' = [reqs EXCEPT ![r].pc = "restored",
                                          ![r].file = h.ret[1]]
                  /\ UNCHANGED <<error, onErrorCalls>>
  /\ UNCHANGED <<dexie, local, lsAvail, now, gvars, svars, fvars, dvars, avars, pvars, hook, progress, sceneModel,
                 rerenders>>

\* loadModelFromHistory after its await: handleFileLoad(result.file)
RestoreContinue(r) ==
  /\ reqs[r].pc = "restored"
  /\ ViewerStart(r, reqs[r].file, [reqs EXCEPT ![r].start = Snapshot])
  /\ UNCHANGED <<hvars, svars, fvars, dvars, avars, pvars, hook, currentModel, currentFile, sceneModel,
                 onModelLoadCalls, rerenders>>

\* the component using useModelViewerLogic renders again with a new
\* options.onModelLoad function: the effect on [currentModel,
\* options.onModelLoad] runs again.  (useModelViewer has no effect that
\* depends on the callback.)
Rerender ==
  /\ hook = "logic"
  /\ rerenders < MaxRerenders
  /\ rerenders' = rerenders + 1
  /\ IF currentModel # NoModel
     THEN /\ sceneModel' = currentModel
          /\ loadingState' = "success"
          /\ onModelLoadCalls' = Bump(onModelLoadCalls, currentModel[1], 1)
     ELSE UNCHANGED <<sceneModel, loadingState, onModelLoadCalls>>
  /\ UNCHANGED <<hvars, svars, fvars, dvars, avars, pvars, hook, currentModel, currentFile, progress, error, reqs,
                 onErrorCalls>>

LoadResolved == \E r \in DOMAIN reqs : LoadSucceeded(r)

LoadRejected == \E r \in DOMAIN reqs, why \in {"read", "parse"} : LoadFailed(r, why)

SaveSettled == \E r \in DOMAIN reqs : HistorySaved(r)

RestoreFetched == \E r \in DOMAIN reqs : RestoreSettled(r)

RestoreReload == \E r \in DOMAIN reqs : RestoreContinue(r)

VInit == HInit /\ VIdle /\ SceneIdle /\ FormatIdle /\ AddsIdle /\ PointerIdle /\ ServicesIdle /\ hook \in {"viewer", "logic"}

VNext ==
  \/ HandleFileLoad
  \/ LoadResolved
  \/ LoadRejected
  \/ SaveSettled
  \/ LoadModelFromHistory
  \/ RestoreFetched
  \/ RestoreReload
  \/ Rerender

SpecViewer == VInit /\ [][VNext]_vars

\* the read and the parse of a request in flight settle, one way or the other
ReadSettled == LoadResolved \/ LoadRejected

\* The hooks when the read and the parse of every request settle: the
\* continuation of the await in handleFileLoad then runs.  Nothing obliges
\* the user to start a load, and the storage calls may take for ever.
SpecViewerFair == VInit /\ [][VNext]_vars /\ WF_vars(ReadSettled)

\* The viewer with a history of two entries stored by earlier loads, in
\* either order of their timestamps
RestoreStores ==
  {{NewItem(GenerateId(t), [name |-> NameA, data |-> <<0>>], t, "png"),
    NewItem(GenerateId(3 - t), [name |-> NameB, data |-> <<0>>], 3 - t, "png")}
     : t \in {1, 2}}

RInit ==
  /\ dexie \in RestoreStores
  /\ local = <<>>
  /\ useDexie = TRUE
  /\ lsAvail \in BOOLEAN
  /\ now = 3
  /\ last = NoOp /\ everFailed = FALSE /\ opCount = 0 /\ pure = TRUE
  /\ inserted = {}
  /\ VIdle /\ SceneIdle /\ FormatIdle /\ AddsIdle /\ PointerIdle /\ ServicesIdle
  /\ hook = "viewer"

RNext ==
  \/ HandleFileLoad
  \/ LoadResolved
  \/ LoadRejected
  \/ SaveSettled
  \/ LoadModelFromHistory
  \/ RestoreFetched
  \/ RestoreReload

SpecRestore == RInit /\ [][RNext]_vars

-----------------------------------------------------------------------------
(* Exact arithmetic for the scene: a number is a fraction <<n, d>> in       *)
(* lowest terms with d > 0.                                                 *)

Abs(i) == IF i < 0 THEN -i ELSE i

RECURSIVE Gcd(_, _)
Gcd(a, b) == IF b = 0 THEN a ELSE Gcd(b, a % b)

Rat(n, d) ==
  LET g == Gcd(Abs(n), Abs(d))
      sgn == IF d < 0 THEN -1 ELSE 1
  IN <<(sgn * n) \div g, (sgn * d) \div g>>

RInt(i) == <<i, 1>>

RAdd(a, b) == Rat(a[1] * b[2] + b[1] * a[2], a[2] * b[2])

RNeg(a) == <<-a[1], a[2]>>

RSub(a, b) == RAdd(a, RNeg(b))

RMul(a, b) == Rat(a[1] * b[1], a[2] * b[2])

\* a / b for b # 0
RDiv(a, b) == Rat(a[1] * b[2], a[2] * b[1])

RLess(a, b) == a[1] * b[2] < b[1] * a[2]

RMax(a, b) == IF RLess(a, b) THEN b ELSE a

RAbs(a) == <<Abs(a[1]), a[2]>>

Axes == {"x", "y", "z"}

Vec(x, y, z) == [x |-> RInt(x), y |-> RInt(y), z |-> RInt(z)]

ZeroVector == Vec(0, 0, 0)

-----------------------------------------------------------------------------
(* SceneService.addModel: placement of the model and framing of the camera *)

\* the size addModel scales the largest dimension to
TargetSize == 3

\* the largest dimension above which addModel scales and centres
MinDimensionThreshold == 0

\* sin(fov / 2) for the default field of view of 60 degrees
SinHalfFov == <<1, 2>>

\* the factor of the camera distance
DistanceMultiplier == <<3, 2>>

\* the per-axis factors of the camera offset
PositionOffset == [x |-> <<7, 10>>, y |-> <<1, 2>>, z |-> <<7, 10>>]

\* the axis-aligned box of the geometry under the root, in the root's own
\* coordinates; a root without geometry has none
NoBox == <<>>

LocalBoxes ==
  {NoBox,
   <<[min |-> Vec(-1, -1, -1), max |-> Vec(1, 1, 1)]>>,
   <<[min |-> Vec(0, 0, 1), max |-> Vec(4, 2, 1)]>>,
   <<[min |-> Vec(2, 2, 2), max |-> Vec(2, 2, 2)]>>,
   <<[min |-> Vec(-3, 0, -1), max |-> Vec(3, 1, 1)]>>}

\* the uniform scale and the position a loader leaves on the root object
RootScales == {<<1, 1>>, <<2, 1>>, <<1, 100>>}

RootPositions == {ZeroVector, Vec(1, 0, 0), Vec(0, -2, 3)}

\* the objects a loader can return
Assets == [box : LocalBoxes, scale : RootScales, position : RootPositions]

\* new THREE.Box3().setFromObject(model): the world box of the object
\* (its scale is positive), empty when there is no geometry
setFromObject(model) ==
  IF model.box = NoBox THEN NoBox
  ELSE <<[min |-> [a \in Axes |->
                     RAdd(model.position[a], RMul(model.scale, model.box[1].min[a]))],
          max |-> [a \in Axes |->
                     RAdd(model.position[a], RMul(model.scale, model.box[1].max[a]))]]>>

\* Box3.getSize: the zero vector for an empty box
getSize(box) ==
  IF box = NoBox THEN ZeroVector
  ELSE [a \in Axes |-> RSub(box[1].max[a], box[1].min[a])]

\* Box3.getCenter: the zero vector for an empty box
getCenter(box) ==
  IF box = NoBox THEN ZeroVector
  ELSE [a \in Axes |-> RMul(<<1, 2>>, RAdd(box[1].min[a], box[1].max[a]))]

\* Math.max(size.x, size.y, size.z)
MaxDimension(size) == RMax(size.x, RMax(size.y, size.z))

\* whether addModel takes the branch that scales and centres
Scales(model) ==
  RLess(RInt(MinDimensionThreshold), MaxDimension(getSize(setFromObject(model))))

\* Place that centres the model also when it does not scale it
PlaceCentresDegenerate(model) ==
  LET maxDimension == MaxDimension(getSize(setFromObject(model)))
      scale == RDiv(RInt(TargetSize), maxDimension)
      scaled == IF Scales(model) THEN [model EXCEPT !.scale = scale] ELSE model
      scaledCenter == getCenter(setFromObject(scaled))
  IN [model |-> [scaled EXCEPT
                   !.position = [a \in Axes |-> RNeg(scaledCenter[a])]],
      divided |-> Scales(model)]

\* the placement step of addModel: model.scale.setScalar(scale), then
\* model.position.set(-scaledCenter); divided tells whether it divided by
\* maxDimension
Place(model) ==
  IF Scales(model)
  THEN LET maxDimension == MaxDimension(getSize(setFromObject(model)))
           scale == RDiv(RInt(TargetSize), maxDimension)
           scaled == [model EXCEPT !.scale = scale]
           scaledCenter == getCenter(setFromObject(scaled))
       IN [model |-> [scaled EXCEPT
                        !.position = [a \in Axes |-> RNeg(scaledCenter[a])]],
           divided |-> TRUE]
  ELSE [model |-> model, divided |-> FALSE]

\* focusOnModel: the camera position and the point it looks at
focusOnModel(model) ==
  LET finalBox == setFromObject(model)
      finalCenter == getCenter(finalBox)
      maxDim == MaxDimension(getSize(finalBox))
      cameraDistance == RMul(RAbs(RDiv(maxDim, SinHalfFov)), DistanceMultiplier)
  IN [position |-> [a \in Axes |->
                      RAdd(finalCenter[a], RMul(cameraDistance, PositionOffset[a]))],
      target |-> finalCenter]

\* the bookkeeping of a call of addModel(model)
Placed(model) ==
  LET placed == Place(model)
      framing == focusOnModel(placed.model)
  IN /\ loadedModel' = <<[before |-> model, after |-> placed.model,
                          divided |-> placed.divided]>>
     /\ cameraPosition' = framing.position
     /\ cameraTarget' = framing.target
     /\ divisions' = divisions + (IF placed.divided THEN 1 ELSE 0)
     /\ placements' = placements + 1
     /\ UNCHANGED <<hvars, vvars, fvars, dvars, avars, pvars, orbit>>

\* addModel(model) for an object a loader has just returned
AddModel ==
  /\ placements < MaxPlacements
  /\ \E model \in Assets : Placed(model)

\* addModel(currentModel) for the object that is already loaded (the effect
\* of useModelViewerLogic runs again)
AddModelAgain ==
  /\ placements < MaxPlacements
  /\ loadedModel # <<>>
  /\ Placed(loadedModel[1].after)

PInit == HInit /\ VIdle /\ SceneIdle /\ FormatIdle /\ AddsIdle /\ PointerIdle /\ ServicesIdle /\ hook = "logic"

PNext == AddModel \/ AddModelAgain

SpecPlace == PInit /\ [][PNext]_vars

-----------------------------------------------------------------------------
(* The touch gestures of SceneService on the camera.  camera.position is    *)
(* kept in spherical coordinates about the origin: radius in world units   *)
(* (a rational), phi (polar) and theta (azimuth) in units of 0.1 rad.  The zero vector   *)
(* has radius 0, phi 0 and theta 0 (THREE.Spherical.setFromVector3).       *)

\* pi, rounded to the unit of the angles
PiUnits == 31

\* the bounds of the polar angle: 0.1 and Math.PI - 0.1
MinPolarAngle == 1

MaxPolarAngle == PiUnits - 1

\* the bounds of the distance
MinDistance == 2

MaxDistance == 20

\* zoomDelta * 5, for the zoomDelta values passed in
ZoomAmounts == {-30, -3, -1, 1, 2, 5, 30}

\* deltaX * rotationSpeed and deltaY * rotationSpeed, in units of 0.1 rad
RotationDeltas == {-40, -1, 0, 3, 40}

ZeroSpherical == [radius |-> <<0, 1>>, phi |-> 0, theta |-> 0]

\* the vector of length radius in the direction (phi, theta); the opposite
\* direction for a negative radius
FromSigned(radius, phi, theta) ==
  IF radius[1] = 0 THEN ZeroSpherical
  ELSE IF radius[1] > 0 THEN [radius |-> radius, phi |-> phi, theta |-> theta]
  ELSE [radius |-> <<-radius[1], radius[2]>>, phi |-> PiUnits - phi,
        theta |-> (theta + PiUnits) % (2 * PiUnits)]

\* zoomCamera: move the camera by -zoomAmount along its direction from the
\* origin, then bring the length back into [minDistance, maxDistance] with
\* normalize().multiplyScalar(...), which leaves the zero vector as it is
zoomCamera(o, zoomAmount) ==
  LET moved == FromSigned(<<o.radius[1] - zoomAmount * o.radius[2], o.radius[2]>>,
                          o.phi, o.theta)
      distance == moved.radius
  IN IF o.radius[1] = 0 THEN o
     ELSE IF distance[1] = 0 THEN ZeroSpherical
     ELSE IF distance[1] < MinDistance * distance[2]
          THEN [moved EXCEPT !.radius = <<MinDistance, 1>>]
     ELSE IF distance[1] > MaxDistance * distance[2]
          THEN [moved EXCEPT !.radius = <<MaxDistance, 1>>]
     ELSE moved

\* Math.max(lo, Math.min(hi, v))
Clamp(lo, hi, v) == IF v < lo THEN lo ELSE IF v > hi THEN hi ELSE v

\* rotateCameraSingleFinger: read the position as spherical, move theta and
\* phi, clamp phi, write the position back
rotateCameraSingleFinger(o, dTheta, dPhi) ==
  LET phi == Clamp(MinPolarAngle, MaxPolarAngle, o.phi + dPhi)
      theta == (o.theta - dTheta) % (2 * PiUnits)
  IN FromSigned(o.radius, phi, theta)

ZoomCamera ==
  /\ \E zoomAmount \in ZoomAmounts : orbit' = zoomCamera(orbit, zoomAmount)
  /\ UNCHANGED <<hvars, vvars, fvars, dvars, avars, pvars, loadedModel, cameraPosition, cameraTarget,
                 divisions, placements>>

RotateCameraSingleFinger ==
  /\ \E dTheta \in RotationDeltas, dPhi \in RotationDeltas :
       orbit' = rotateCameraSingleFinger(orbit, dTheta, dPhi)
  /\ UNCHANGED <<hvars, vvars, fvars, dvars, avars, pvars, loadedModel, cameraPosition,
                 cameraTarget, divisions, placements>>

\* a camera within the bounds of distance and polar angle
CInit ==
  /\ HInit /\ VIdle /\ FormatIdle /\ AddsIdle /\ PointerIdle /\ ServicesIdle /\ hook = "viewer"
  /\ loadedModel = <<>>
  /\ cameraPosition = [x |-> <<0, 1>>, y |-> <<2, 1>>, z |-> <<5, 1>>]
  /\ cameraTarget = ZeroVector
  /\ divisions = 0
  /\ placements = 0
  /\ orbit \in [radius : {<<MinDistance, 1>>, <<5, 1>>, <<MaxDistance, 1>>},
                phi : {2, 12, 29},
                theta : {0}]

CNext == ZoomCamera \/ RotateCameraSingleFinger

SpecCamera == CInit /\ [][CNext]_vars

-----------------------------------------------------------------------------
(* The mouse handlers of SceneService, the single-finger orbit, addModel    *)
(* and dispose on one scene.  Pointer positions are in pixels, the model's  *)
(* rotation in units of 0.001 rad.                                          *)

\* the number of events delivered to the scene
MaxEvents == 5

\* rotationSpeed of onMouseMove: 0.005 rad per pixel
RotationSpeed == 5

\* clientX and clientY of the mouse events
PointerPositions == [x : {0, 20, 60}, y : {0, 40}]

\* deltaX * rotationSpeed and deltaY * rotationSpeed of the orbit calls made
\* here, in units of 0.1 rad
OrbitDeltas == {-1, 3}

\* the length of the vector of the offset factors, sqrt(0.49 + 0.25 + 0.49),
\* to three decimals
OffsetLength == <<1109, 1000>>

\* the polar angle and the azimuth of that vector, in units of 0.1 rad
OffsetPhi == 11

OffsetTheta == 8

\* the objects added here: a cube and an object without geometry, both as
\* the loader returns them (at the origin, unscaled)
SceneAssets ==
  {m \in Assets : /\ m.scale = <<1, 1>> /\ m.position = ZeroVector
                  /\ m.box \in {NoBox, <<[min |-> Vec(-1, -1, -1),
                                           max |-> Vec(1, 1, 1)]>>}}

\* cameraDistance of focusOnModel
CameraDistance(model) ==
  LET maxDim == MaxDimension(getSize(setFromObject(model)))
  IN RMul(RAbs(RDiv(maxDim, SinHalfFov)), DistanceMultiplier)

\* camera.position after focusOnModel read as spherical coordinates, for a
\* model whose final box is centred on the origin or empty: the offset
\* direction at cameraDistance times the length of the offset factors
FramedOrbit(model) ==
  IF CameraDistance(model)[1] = 0 THEN ZeroSpherical
  ELSE [radius |-> RMul(CameraDistance(model), OffsetLength),
        phi |-> OffsetPhi, theta |-> OffsetTheta]

\* an event was delivered
Delivered(type, x, y) ==
  /\ lastEvent' = [type |-> type, x |-> x, y |-> y]
  /\ events' = events + 1

\* addModel(model) on the scene: placement, this.loadedModel,
\* this.modelRotation = {0, 0}, focusOnModel (which ends with camera.lookAt);
\* model.rotation is not assigned, so an object added again keeps it
SceneAdd(model, again) ==
  LET placed == Place(model)
      framing == focusOnModel(placed.model)
  IN /\ loadedModel' = <<[before |-> model, after |-> placed.model,
                          divided |-> placed.divided]>>
     /\ cameraPosition' = framing.position
     /\ cameraTarget' = framing.target
     /\ divisions' = divisions + (IF placed.divided THEN 1 ELSE 0)
     /\ placements' = placements + 1
     /\ orbit' = FramedOrbit(placed.model)
     /\ cameraRoll' = 0
     /\ modelRotation' = [x |-> 0, y |-> 0]
     /\ rotation' = IF again THEN rotation ELSE [x |-> 0, y |-> 0]

\* addModel(model) for an object a loader has just returned
SceneAddModel ==
  /\ events < MaxEvents /\ listening
  /\ \E model \in SceneAssets : SceneAdd(model, FALSE)
  /\ Delivered("addModel", 0, 0)
  /\ UNCHANGED <<hvars, vvars, fvars, dvars, avars, isMouseDown,
                 previousMousePosition, touchState, surface,
                 listening, teardown>>

\* addModel(currentModel) for the object that is already loaded
SceneAddModelAgain ==
  /\ events < MaxEvents /\ listening
  /\ loadedModel # <<>>
  /\ SceneAdd(loadedModel[1].after, TRUE)
  /\ Delivered("addModelAgain", 0, 0)
  /\ UNCHANGED <<hvars, vvars, fvars, dvars, avars, isMouseDown,
                 previousMousePosition, touchState, surface,
                 listening, teardown>>

OnMouseDown ==
  /\ events < MaxEvents /\ listening
  /\ \E event \in PointerPositions :
       /\ isMouseDown' = TRUE
       /\ previousMousePosition' = event
       /\ Delivered("mousedown", event.x, event.y)
  /\ UNCHANGED <<hvars, vvars, svars, fvars, dvars, avars, modelRotation, rotation,
                 cameraRoll, touchState, surface,
                 listening, teardown>>

\* onMouseMove that also turns the camera about the model
OnMouseMoveOrbits ==
  /\ events < MaxEvents /\ listening
  /\ \E event \in PointerPositions :
       LET deltaMove == [x |-> event.x - previousMousePosition.x,
                         y |-> event.y - previousMousePosition.y]
           turned == [x |-> modelRotation.x + deltaMove.y * RotationSpeed,
                      y |-> modelRotation.y + deltaMove.x * RotationSpeed]
       IN /\ IF ~isMouseDown \/ loadedModel = <<>>
             THEN UNCHANGED <<modelRotation, rotation, previousMousePosition,
                              orbit>>
             ELSE /\ modelRotation' = turned
                  /\ rotation' = turned
                  /\ previousMousePosition' = event
                  /\ orbit' = rotateCameraSingleFinger(orbit, 1, 0)
          /\ Delivered("mousemove", event.x, event.y)
  /\ UNCHANGED <<hvars, vvars, fvars, dvars, avars, loadedModel, cameraPosition,
                 cameraTarget, divisions, placements, isMouseDown, cameraRoll,
                 touchState, surface,
                 listening, teardown>>

OnMouseMove ==
  /\ events < MaxEvents /\ listening
  /\ \E event \in PointerPositions :
       LET deltaMove == [x |-> event.x - previousMousePosition.x,
                         y |-> event.y - previousMousePosition.y]
           turned == [x |-> modelRotation.x + deltaMove.y * RotationSpeed,
                      y |-> modelRotation.y + deltaMove.x * RotationSpeed]
       IN /\ IF ~isMouseDown \/ loadedModel = <<>>
             THEN UNCHANGED <<modelRotation, rotation, previousMousePosition>>
             ELSE /\ modelRotation' = turned
                  /\ rotation' = turned
                  /\ previousMousePosition' = event
          /\ Delivered("mousemove", event.x, event.y)
  /\ UNCHANGED <<hvars, vvars, svars, fvars, dvars, avars, isMouseDown, cameraRoll,
                 touchState, surface,
                 listening, teardown>>

OnMouseUp ==
  /\ events < MaxEvents /\ listening
  /\ isMouseDown' = FALSE
  /\ Delivered("mouseup", 0, 0)
  /\ UNCHANGED <<hvars, vvars, svars, fvars, dvars, avars, previousMousePosition,
                 modelRotation, rotation, cameraRoll, touchState, surface,
                 listening, teardown>>

\* mouseleave is bound to onMouseUp
OnMouseLeave ==
  /\ events < MaxEvents /\ listening
  /\ isMouseDown' = FALSE
  /\ Delivered("mouseleave", 0, 0)
  /\ UNCHANGED <<hvars, vvars, svars, fvars, dvars, avars, previousMousePosition,
                 modelRotation, rotation, cameraRoll, touchState, surface,
                 listening, teardown>>

\* a single-finger move handed to rotateCameraSingleFinger, which ends with
\* camera.lookAt(origin)
SingleFingerMove ==
  /\ events < MaxEvents /\ listening
  /\ \E dTheta \in OrbitDeltas, dPhi \in OrbitDeltas :
       /\ orbit' = rotateCameraSingleFinger(orbit, dTheta, dPhi)
       /\ Delivered("orbit", dTheta, dPhi)
  /\ cameraRoll' = 0
  /\ UNCHANGED <<hvars, vvars, fvars, dvars, avars, loadedModel, cameraPosition,
                 cameraTarget, divisions, placements, isMouseDown,
                 previousMousePosition, modelRotation, rotation, touchState,
                 surface, listening, teardown>>

\* the steps of dispose in the order the method takes them
DisposeSteps ==
  <<"cancelAnimationFrame", "removeResizeListener", "removeCanvasListeners",
    "controlsDispose", "removeCanvas", "rendererDispose", "sceneDispose">>

\* SceneService.dispose, ending with ThreeConfig.dispose(), threeConfig =
\* null and loadedModel = null
Dispose ==
  /\ events < MaxEvents /\ listening
  /\ teardown' = DisposeSteps
  /\ listening' = FALSE
  /\ loadedModel' = <<>>
  /\ Delivered("dispose", 0, 0)
  /\ UNCHANGED <<hvars, vvars, fvars, dvars, avars, cameraPosition, cameraTarget,
                 orbit, divisions, placements, isMouseDown,
                 previousMousePosition, modelRotation, rotation, cameraRoll,
                 touchState, surface>>

\* a scene after construction: default camera, the listeners registered
MInit == HInit /\ VIdle /\ SceneIdle /\ FormatIdle /\ AddsIdle /\ PointerIdle /\ ServicesIdle
         /\ hook = "logic"

MNext ==
  \/ SceneAddModel
  \/ SceneAddModelAgain
  \/ OnMouseDown
  \/ OnMouseMove
  \/ OnMouseUp
  \/ OnMouseLeave
  \/ SingleFingerMove
  \/ Dispose

SpecPointer == MInit /\ [][MNext]_vars

-----------------------------------------------------------------------------
(* The touch controller of TouchGestureOverlay, wired by ModelViewer to     *)
(* rotateCameraSingleFinger, zoomCamera and rotateCameraTwoFinger, with the *)
(* mouse wheel and addModel on the same camera.  Touch points are in        *)
(* pixels, the angle between two touches in units of 0.1 rad.               *)

\* zoomAmount = zoomDelta * 5
ZoomSensitivityMultiplier == 5

\* camera.rotateZ(-angleDelta * 0.5): 0.01 rad of roll for each 0.1 rad
RollPerAngleUnit == 5

\* camera.position.clampLength(2, 50) of onWheel
WheelMinLength == 2

WheelMaxLength == 50

\* where a single finger touches
SinglePoints == {[x |-> 0, y |-> 0], [x |-> 20, y |-> 0], [x |-> 0, y |-> -60]}

\* where the second finger touches, relative to the first
SecondOffsets ==
  {[x |-> 41, y |-> 0], [x |-> 141, y |-> 0], [x |-> 40, y |-> 9],
   [x |-> -40, y |-> 9], [x |-> -40, y |-> -9]}

\* Math.sqrt(dx * dx + dy * dy)
getTouchDistance(touch1, touch2) ==
  LET dx == touch2.x - touch1.x
      dy == touch2.y - touch1.y
  IN CHOOSE d \in 0..300 : d * d = dx * dx + dy * dy

\* Math.atan2(dy, dx), to the nearest 0.1 rad, in (-pi, pi]
getTouchAngle(touch1, touch2) ==
  LET dx == touch2.x - touch1.x
      dy == touch2.y - touch1.y
  IN CASE dy = 0 /\ dx > 0 -> 0
       [] dy = 0 /\ dx < 0 -> PiUnits
       [] dx = 40 /\ dy = 9 -> 2
       [] dx = -40 /\ dy = 9 -> PiUnits - 2
       [] dx = -40 /\ dy = -9 -> 2 - PiUnits

\* the fresh state of the controller
NoTouch ==
  [isActive |-> FALSE, touches |-> <<>>, lastDistance |-> 0, lastAngle |-> 0]

\* handleTouchStart: ignored when the target is a button, an input, a label
\* or another interactive element
handleTouchStart(state, touches, interactive) ==
  IF interactive THEN state
  ELSE [isActive |-> TRUE,
        touches |-> touches,
        lastDistance |-> IF Len(touches) = 2
                         THEN getTouchDistance(touches[1], touches[2])
                         ELSE state.lastDistance,
        lastAngle |-> IF Len(touches) = 2
                      THEN getTouchAngle(touches[1], touches[2])
                      ELSE state.lastAngle]

\* rotateCameraTwoFinger
rotateCameraTwoFinger(roll, angleDelta) == roll - angleDelta * RollPerAngleUnit

\* handleTouchMove, with the callbacks ModelViewer passes
handleTouchMove(state, touches, camera) ==
  IF ~state.isActive THEN [state |-> state, camera |-> camera]
  ELSE IF Len(touches) = 1 /\ Len(state.touches) = 1
  THEN LET deltaX == touches[1].x - state.touches[1].x
           deltaY == touches[1].y - state.touches[1].y
       IN [state |-> [state EXCEPT !.touches = touches],
           camera |-> [orbit |-> rotateCameraSingleFinger(
                                   camera.orbit,
                                   (deltaX * RotationSpeed) \div 100,
                                   (deltaY * RotationSpeed) \div 100),
                       roll |-> 0]]
  ELSE IF Len(touches) = 2
  THEN LET currentDistance == getTouchDistance(touches[1], touches[2])
           currentAngle == getTouchAngle(touches[1], touches[2])
           zoomAmount == ((currentDistance - state.lastDistance)
                            * ZoomSensitivityMultiplier) \div 100
           angleDelta == currentAngle - state.lastAngle
       IN [state |-> [state EXCEPT !.lastDistance = currentDistance,
                                   !.lastAngle = currentAngle,
                                   !.touches = touches],
           camera |-> [orbit |-> IF state.lastDistance > 0
                                 THEN zoomCamera(camera.orbit, zoomAmount)
                                 ELSE camera.orbit,
                       roll |-> IF state.lastAngle # 0
                                THEN rotateCameraTwoFinger(camera.roll, angleDelta)
                                ELSE camera.roll]]
  ELSE [state |-> state, camera |-> camera]

\* handleTouchEnd (also bound to touchcancel): resets only when no touch is
\* left
handleTouchEnd(state, touches) ==
  IF Len(touches) = 0 THEN NoTouch ELSE state

\* event.deltaY of the wheel events
WheelDeltas == {-100, 0, 100}

\* onWheel: direction = deltaY > 0 ? 1 : -1, multiplyScalar(1 + direction *
\* 0.1), then clampLength(2, 50), which leaves the zero vector as it is
onWheel(o, deltaY) ==
  LET direction == IF deltaY > 0 THEN 1 ELSE -1
      length == RMul(o.radius, <<10 + direction, 10>>)
  IN IF length[1] = 0 THEN o
     ELSE IF RLess(length, <<WheelMinLength, 1>>)
          THEN [o EXCEPT !.radius = <<WheelMinLength, 1>>]
     ELSE IF RLess(<<WheelMaxLength, 1>>, length)
          THEN [o EXCEPT !.radius = <<WheelMaxLength, 1>>]
     ELSE [o EXCEPT !.radius = length]

\* the touches a touchstart reports: the fingers on the surface and the new
\* one
StartTouches ==
  IF surface.fingers = <<>>
  THEN {<<point>> : point \in SinglePoints}
  ELSE {Append(surface.fingers,
               [x |-> surface.fingers[1].x + offset.x,
                y |-> surface.fingers[1].y + offset.y]) :
          offset \in SecondOffsets}

\* the touches a touchmove reports: the single finger somewhere else, or the
\* second finger somewhere else about the first
MoveTouches ==
  IF Len(surface.fingers) = 1
  THEN {<<point>> : point \in SinglePoints}
  ELSE {<<surface.fingers[1],
          [x |-> surface.fingers[1].x + offset.x,
           y |-> surface.fingers[1].y + offset.y]>> :
          offset \in SecondOffsets}

\* the touches a touchend reports: the fingers left on the surface
EndTouches ==
  {SelectSeq(surface.fingers, LAMBDA finger : finger # surface.fingers[i]) :
     i \in DOMAIN surface.fingers}

TouchStart ==
  /\ events < MaxEvents
  /\ Len(surface.fingers) < 2
  /\ \E touches \in StartTouches, interactive \in BOOLEAN :
       /\ touchState' = handleTouchStart(touchState, touches, interactive)
       /\ surface' = [fingers |-> touches,
                      phase |-> IF surface.phase = "none" THEN "none"
                                ELSE "restarted"]
       /\ Delivered("touchstart", Len(touches), IF interactive THEN 1 ELSE 0)
  /\ UNCHANGED <<hvars, vvars, svars, fvars, dvars, avars, isMouseDown,
                 previousMousePosition, modelRotation, rotation, cameraRoll,
                 listening, teardown>>

TouchMove ==
  /\ events < MaxEvents
  /\ surface.fingers # <<>>
  /\ \E touches \in MoveTouches :
       LET moved == handleTouchMove(touchState, touches,
                                    [orbit |-> orbit, roll |-> cameraRoll])
       IN /\ touchState' = moved.state
          /\ orbit' = moved.camera.orbit
          /\ cameraRoll' = moved.camera.roll
          /\ surface' = [fingers |-> touches,
                         phase |-> IF Len(touches) = 2 THEN "none"
                                   ELSE surface.phase]
          /\ Delivered("touchmove", Len(touches), 0)
  /\ UNCHANGED <<hvars, vvars, fvars, dvars, avars, loadedModel, cameraPosition,
                 cameraTarget, divisions, placements, isMouseDown,
                 previousMousePosition, modelRotation, rotation, listening,
                 teardown>>

TouchEnd ==
  /\ events < MaxEvents
  /\ surface.fingers # <<>>
  /\ \E touches \in EndTouches :
       /\ touchState' = handleTouchEnd(touchState, touches)
       /\ surface' = [fingers |-> touches,
                      phase |-> IF Len(surface.fingers) = 2 THEN "ended"
                                ELSE surface.phase]
       /\ Delivered("touchend", Len(touches), 0)
  /\ UNCHANGED <<hvars, vvars, svars, fvars, dvars, avars, isMouseDown,
                 previousMousePosition, modelRotation, rotation, cameraRoll,
                 listening, teardown>>

OnWheel ==
  /\ events < MaxEvents /\ listening
  /\ \E deltaY \in WheelDeltas :
       /\ orbit' = onWheel(orbit, deltaY)
       /\ Delivered("wheel", 0, deltaY)
  /\ UNCHANGED <<hvars, vvars, fvars, dvars, avars, loadedModel, cameraPosition,
                 cameraTarget, divisions, placements, isMouseDown,
                 previousMousePosition, modelRotation, rotation, cameraRoll,
                 touchState, surface, listening, teardown>>

\* a scene after construction with the overlay mounted: no touch yet
TInit == HInit /\ VIdle /\ SceneIdle /\ FormatIdle /\ AddsIdle /\ PointerIdle /\ ServicesIdle
         /\ hook = "viewer"

TNext ==
  \/ TouchStart
  \/ TouchMove
  \/ TouchEnd
  \/ OnWheel
  \/ SceneAddModel

SpecTouch == TInit /\ [][TNext]_vars

-----------------------------------------------------------------------------
(* Format resolution: the format functions applied to a file name *)

\* what precedes the final dot of a name
Stems ==
  {<<>>, <<"a">>, <<"a", ".", "b">>, <<"m", ".", "o", "b", "j", ".", "x">>}

\* the supported extensions in upper and in mixed case
CasedKeys ==
  {<<"O", "B", "J">>, <<"F", "b", "X">>, <<"s", "T", "L">>, <<"P", "L", "y">>,
   <<"D", "a", "e">>, <<"3", "D", "S">>, <<"G", "l", "T", "f">>,
   <<"G", "L", "B">>, <<"3", "M", "f">>}

\* suffixes that are no supported extension: other types, a prefix and an
\* extension of a supported one, the empty suffix, inherited property names
OtherSuffixes ==
  {<<"t", "x", "t">>, <<"o", "b">>, <<"o", "b", "j", "x">>, <<"P", "N", "G">>,
   <<>>, <<"c", "o", "n", "s", "t", "r", "u", "c", "t", "o", "r">>,
   <<"C", "o", "n", "s", "t", "r", "u", "c", "t", "o", "R">>,
   <<"_", "_", "p", "r", "o", "t", "o", "_", "_">>,
   <<"t", "o", "S", "t", "r", "i", "n", "g">>}

Suffixes == FormatKeys \cup CasedKeys \cup OtherSuffixes

\* the file names: stem, dot, suffix; and two names without a dot
InputNames ==
  {stem \o <<".">> \o suffix : stem \in Stems, suffix \in Suffixes}
    \cup {<<"a">>, <<"o", "b", "j">>}

\* what the callers of the format functions obtain for a file of this name
\* (of a size within the limit): the extension, the format the loader is
\* chosen by (FILE_FORMATS[extension]), the format a restore from the
\* history is chosen by (getFileFormat(historyItem.format)), the validation
\* code, and what the loader strategy is handed on the
\* direct load and on the restore
Resolve(name) ==
  LET extension == getFileExtension(name)
      format == IF extension = Null THEN Null ELSE PropertyOf(extension[1])
      historyFormat == getFileFormat(HistoryFileFormat(name))
  IN [extension |-> extension,
      format |-> format,
      historyFormat |-> historyFormat,
      validation |-> validateFile([name |-> name, data |-> <<0>>]),
      read |-> IF format = Null THEN Null ELSE Some(readInput(format[1])),
      restored |-> IF historyFormat = Null THEN Null
                   ELSE Some(restoredInput(historyFormat[1]))]

\* the user selects a file
SelectFile ==
  /\ resolved # <<>>
  /\ inputName' \in InputNames
  /\ resolved' = <<>>
  /\ UNCHANGED <<hvars, vvars, svars, avars, pvars, dvars>>

\* the file is validated and its format is looked up
ResolveFormat ==
  /\ resolved = <<>>
  /\ resolved' = <<Resolve(inputName)>>
  /\ UNCHANGED <<hvars, vvars, svars, avars, pvars, dvars, inputName>>

FInit ==
  /\ HInit /\ VIdle /\ SceneIdle /\ AddsIdle /\ PointerIdle /\ ServicesIdle /\ hook = "viewer"
  /\ inputName \in InputNames
  /\ resolved = <<>>

FNext == SelectFile \/ ResolveFormat

SpecFormat == FInit /\ [][FNext]_vars

-----------------------------------------------------------------------------
(* SceneService construction and disposal over the ThreeConfig singleton *)

MaxConstructions == 3   \* SceneService constructions per behaviour

\* the mount elements of the viewers on the page
Mounts == {1, 2}

\* the event types setupMouseControls listens to on the canvas
CanvasEvents == {"mousedown", "mousemove", "mouseup", "mouseleave", "wheel"}

\* ThreeConfig.prototype.dispose: the canvas leaves its parent node and the
\* renderer is disposed
configDispose(configs, c) ==
  [configs EXCEPT ![c].parent = 0, ![c].disposed = TRUE]

\* static ThreeConfig.dispose: the current instance, if any, is disposed;
\* the caller sets ThreeConfig.instance to null
ThreeConfigDispose(configs, current) ==
  IF current # 0 THEN configDispose(configs, current) ELSE configs

\* static ThreeConfig.recreateInstance: the current instance, if any, is
\* disposed and a new ThreeConfig with a new renderer and canvas is created
recreateInstance(configs, current) ==
  Append(ThreeConfigDispose(configs, current),
         [disposed |-> FALSE, parent |-> 0, listeners |-> {}])

\* new SceneService({mountElement}) for a viewer whose mount holds no live
\* service: initialize disposes and recreates the ThreeConfig singleton,
\* appends the canvas to the mount, registers the five canvas listeners,
\* renders the first frame and requests the next, and registers a
\* handleResize closure on window
NewSceneService(m) ==
  /\ Len(sceneServices) < MaxConstructions
  /\ \A k \in DOMAIN sceneServices :
       sceneServices[k].live => sceneServices[k].mountElement # m
  /\ LET k == Len(sceneServices) + 1
         created == recreateInstance(ThreeConfigDispose(threeConfigs, instance), 0)
     IN /\ threeConfigs' = [created EXCEPT ![k].parent = m,
                                           ![k].listeners = CanvasEvents]
        /\ instance' = k
        /\ sceneServices' =
             Append(sceneServices,
                    [mountElement |-> m, threeConfig |-> k, animationId |-> k,
                     live |-> TRUE])
        /\ frames' = frames \cup {k}
        /\ lastFrame' = [service |-> k, rendered |-> TRUE]
        /\ windowListeners' =
             windowListeners \cup {[service |-> k, listener |-> "handleResize"]}
  /\ UNCHANGED <<hvars, vvars, svars, avars, pvars, inputName, resolved, resized>>

\* SceneService.dispose of a service that has not been disposed: the pending
\* frame is cancelled, removeEventListener('resize', this.setupResizeHandler)
\* removes the listener with that function, the canvas listeners are removed
\* and the canvas leaves the mount, then the static ThreeConfig.dispose
\* disposes whatever the current instance is
DisposeService(k) ==
  /\ k \in DOMAIN sceneServices /\ sceneServices[k].live
  /\ LET s == sceneServices[k]
         c == s.threeConfig
         unlistened ==
           IF c # 0
             THEN [threeConfigs EXCEPT ![c].listeners = @ \ CanvasEvents]
             ELSE threeConfigs
         removed ==
           IF c # 0 /\ unlistened[c].parent = s.mountElement
             THEN [unlistened EXCEPT ![c].parent = 0]
             ELSE unlistened
     IN /\ frames' = IF s.animationId # 0 THEN frames \ {s.animationId}
                                          ELSE frames
        /\ windowListeners' =
             windowListeners \ {[service |-> k, listener |-> "setupResizeHandler"]}
        /\ threeConfigs' = ThreeConfigDispose(removed, instance)
        /\ instance' = 0
        /\ sceneServices' =
             [sceneServices EXCEPT ![k].threeConfig = 0, ![k].live = FALSE]
  /\ UNCHANGED <<hvars, vvars, svars, avars, pvars, inputName, resolved, lastFrame,
                 resized>>

\* the browser runs the animate callback a service requested: it returns
\* when threeConfig is null, otherwise it renders and requests the next frame
AnimationFrame(k) ==
  /\ k \in frames
  /\ IF sceneServices[k].threeConfig = 0
       THEN /\ frames' = frames \ {k}
            /\ lastFrame' = [service |-> k, rendered |-> FALSE]
       ELSE /\ frames' = frames
            /\ lastFrame' = [service |-> k, rendered |-> TRUE]
  /\ UNCHANGED <<hvars, vvars, svars, avars, pvars, inputName, resolved, instance,
                 threeConfigs, sceneServices, windowListeners, resized>>

\* the window is resized: every registered handleResize closure runs and
\* sizes its service's renderer unless threeConfig is null
WindowResize ==
  /\ resized' = {l.service : l \in {w \in windowListeners :
                     /\ w.listener = "handleResize"
                     /\ sceneServices[w.service].threeConfig # 0}}
  /\ UNCHANGED <<hvars, vvars, svars, avars, pvars, inputName, resolved, instance,
                 threeConfigs, sceneServices, windowListeners, frames,
                 lastFrame>>

DInit == HInit /\ VIdle /\ SceneIdle /\ FormatIdle /\ AddsIdle /\ PointerIdle
         /\ ServicesIdle /\ hook = "viewer"

DNext ==
  \/ \E m \in Mounts : NewSceneService(m)
  \/ \E k \in DOMAIN sceneServices : DisposeService(k)
  \/ \E k \in frames : AnimationFrame(k)
  \/ WindowResize

SpecServices == DInit /\ [][DNext]_vars

-----------------------------------------------------------------------------
(* Properties of the history service *)

\* what getHistory returns now from the backend the flag selects
CurrentHistory == getHistory(dexie, local, useDexie, lsAvail, useDexie, "none").ret

\* the stored entries of the active backend with the key of the last add
LastKeyRows ==
  {x \in BackendRows(dexie, local, useDexie) :
     x.name = last.file[1].name /\ x.size = FileSize(last.file[1])}

\* C1: sequential deduplication.  When addToHistory is called for a file
\* whose (name, size) is that of an entry already stored in the backend that
\* serves the call, and the call is served without a Dexie step throwing, the
\* backend afterwards holds exactly one entry with that (name, size), it has
\* as many entries as before (no entry was created), the call returned the id
\* of that entry, and the entry's timestamp is the time of this second add.
C1_SequentialDedup ==
  (last.op = "add" /\ ~last.threw /\ ~last.failed /\ last.preKeyCount = 1)
    => /\ last.path = "dedup"
       /\ KeyCount(dexie, local, useDexie,
                   last.file[1].name, FileSize(last.file[1])) = 1
       /\ BackendLen(dexie, local, useDexie) = last.preLen
       /\ \A x \in LastKeyRows : x.id = last.ret /\ x.timestamp = last.time

\* C1 witness: a second add of a stored (name, size) has completed, on Dexie
C1_Witness ==
  /\ last.op = "add" /\ ~last.threw /\ ~last.failed /\ last.preKeyCount = 1
  /\ last.path = "dedup" /\ useDexie
  /\ \E x \in dexie : x.id = last.ret /\ x.id < x.timestamp

\* the entries added so far that getHistory no longer returns
Evicted ==
  {e \in inserted : \A i \in 1..Len(CurrentHistory) : CurrentHistory[i].id # e.id}

\* C2: LRU eviction.  After N > maxHistoryItems sequential adds of entries
\* with pairwise distinct (name, size) into an initially empty store, all
\* served by the same backend, getHistory returns exactly maxHistoryItems
\* entries, all of them added entries, the N - maxHistoryItems others are
\* absent, and every retained entry has a timestamp not older than that of
\* every evicted entry.
C2_LruEviction ==
  (pure /\ Cardinality(inserted) > MaxHistoryItems)
    => /\ Len(CurrentHistory) = MaxHistoryItems
       /\ Cardinality(Evicted) = Cardinality(inserted) - MaxHistoryItems
       /\ \A i \in 1..Len(CurrentHistory) :
            /\ \E e \in inserted : e.id = CurrentHistory[i].id
            /\ \A e \in Evicted : CurrentHistory[i].timestamp >= e.timestamp

\* C2 witness: more adds than the capacity have completed on the Dexie backend
C2_Witness ==
  pure /\ useDexie /\ Cardinality(inserted) > MaxHistoryItems /\ Evicted # {}

\* C2 on the fallback: the same scenario is reached on localStorage
C2_WitnessLocal ==
  pure /\ ~useDexie /\ Cardinality(inserted) > MaxHistoryItems /\ Evicted # {}

\* C3: sticky one-way downgrade.  Once a Dexie step has thrown inside a public
\* operation, no later public operation runs a Dexie table operation.
C3_StickyDowngrade == last.failedBefore => ~last.usedDexie

\* what a getHistoryItem(id) that follows the last add returns while the
\* structured backend is in use
FollowingGet ==
  getHistoryItem(dexie, local, useDexie, lsAvail, last.ret, TRUE, "none").ret

C5_LossyFallback ==
  /\ \A i \in 1..Len(local) :
       local[i].data = EmptyData /\ local[i].thumbnail = ""
  /\ (last.op = "add" /\ ~last.threw /\ ~useDexie /\ last.path = "insert")
       => /\ Len(local) > 0
          /\ local[1] = LightItem(NewItem(last.ret, last.file[1], last.time, "png"))
          /\ local[1].id = GenerateId(last.time)
          /\ local[1].name = last.file[1].name
          /\ local[1].format = HistoryFileFormat(last.file[1].name)
          /\ local[1].size = Len(last.file[1].data)
          /\ local[1].timestamp = last.time
  /\ \A id \in StoredIds :
       LET got == getHistoryItem(dexie, local, useDexie, lsAvail, id, FALSE, "none").ret
       IN got # Null => got[1].data = EmptyData

\* C5 witness: an add whose Dexie insert threw has written its entry to
\* localStorage
C5_Witness ==
  /\ last.op = "add" /\ ~last.threw /\ ~useDexie /\ last.path = "insert"
  /\ last.failed /\ Len(local) > 0 /\ local[1].id = last.ret
  /\ last.file[1].data # EmptyData

-----------------------------------------------------------------------------
(* Properties of the viewer hooks (SpecViewer) *)

\* C6: last-requested-wins.  Once a later request has completed while
\* request a was still in flight, the result of a is ignored: no later step
\* of a changes the asset in the scene, currentModel or currentFile, and
\* onModelLoad is not invoked for a.
C6_LastRequestedWins ==
  [][\A a \in DOMAIN reqs :
       reqs[a].overtaken =>
         /\ onModelLoadCalls'[a] = onModelLoadCalls[a]
         /\ (reqs'[a].pc # reqs[a].pc
               => UNCHANGED <<sceneModel, currentModel, currentFile>>)]_vars

\* C7: onModelLoad is invoked at most once per load request, file load or
\* restore from history, whatever re-renders happen.
C7_OnModelLoadAtMostOnce == \A r \in 1..MaxReq : onModelLoadCalls[r] <= 1

\* C8: onError is invoked at most once per load request, whichever of
\* validation, read, parse or persistence fails.
C8_OnErrorAtMostOnce == \A r \in 1..MaxReq : onErrorCalls[r] <= 1

\* C9: storage failures never block viewing.  The step in which the read and
\* parse of a request succeed makes its model the asset in the scene and sets
\* loadingState to 'success'; onModelLoad is invoked in that step
\* (useModelViewerLogic) or in the step in which history.addToHistory settles
\* (useModelViewer), whether it saved, reported storage as unsupported or
\* failed, and that step leaves loadingState and the scene as they are.
C9_StorageNeverBlocksViewing ==
  [][\A r \in DOMAIN reqs :
       /\ (reqs[r].pc = "reading" /\ reqs'[r].outcome = "loaded")
            => /\ sceneModel' = Model(r, "parsed")
               /\ currentModel' = Model(r, "parsed")
               /\ loadingState' = "success"
               /\ IF hook = "viewer" THEN reqs'[r].pc = "saving"
                  ELSE onModelLoadCalls'[r] = onModelLoadCalls[r] + 1
       /\ (reqs[r].pc = "saving" /\ reqs'[r].pc # "saving")
            => /\ reqs'[r].saved \in {"ok", "unsupported", "error"}
               /\ onModelLoadCalls'[r] = onModelLoadCalls[r] + 1
               /\ loadingState' = loadingState
               /\ UNCHANGED <<sceneModel, currentModel, currentFile>>]_vars

\* two loads whose save failed, one with an error and one with storage
\* unsupported, both announced, and the second one on display
C9_Witness ==
  \E r1, r2 \in DOMAIN reqs :
    /\ reqs[r1].pc = "done" /\ reqs[r1].saved = "error"
    /\ reqs[r2].pc = "done" /\ reqs[r2].saved = "unsupported"
    /\ onModelLoadCalls[r1] = 1 /\ onModelLoadCalls[r2] = 1
    /\ r1 < r2
    /\ sceneModel = Model(r2, "parsed")
    /\ loadingState = "success"

\* the read or the parse of request r fails in this step
FailStep(r) == reqs[r].pc = "reading" /\ reqs'[r].outcome = "failed"

\* C10 as claimed: when the read or the parse of a load request fails, the
\* asset in the scene, currentModel, currentFile and the history entries are
\* what they were when the request started, and nothing but loadingState and
\* the error has changed (so progress has not).
C10_FailedLoadAsClaimed ==
  [][\A r \in DOMAIN reqs :
       FailStep(r) =>
         /\ sceneModel' = reqs[r].start.sceneModel
         /\ currentModel' = reqs[r].start.currentModel
         /\ currentFile' = reqs[r].start.currentFile
         /\ StoredIds' = reqs[r].start.ids
         /\ progress' = reqs[r].start.progress]_vars

\* C10 (amended): the failed load itself changes nothing that is shown or
\* stored.  The step in which the read or parse fails leaves the asset in the
\* scene, currentModel, currentFile, progress and both stores unchanged, sets
\* loadingState to 'error' and reports the error; the step that started the
\* load left the scene, currentModel, currentFile and both stores unchanged,
\* cleared the error, set loadingState to 'loading' and reset progress.
C10_FailedLoadChangesNothing ==
  [][/\ \A r \in DOMAIN reqs :
          FailStep(r) =>
            /\ UNCHANGED <<sceneModel, currentModel, currentFile, progress,
                           dexie, local>>
            /\ loadingState' = "error"
            /\ hook = "viewer" => error' = "LOAD_ERROR"
            /\ onErrorCalls'[r] > onErrorCalls[r]
     /\ \A r \in DOMAIN reqs' :
          (reqs'[r].pc = "reading"
             /\ (r \notin DOMAIN reqs \/ reqs[r].pc = "restored")) =>
            /\ UNCHANGED <<sceneModel, currentModel, currentFile, dexie, local>>
            /\ loadingState' = "loading"
            /\ error' = "none"
            /\ progress' = [loaded |-> 0, total |-> FileSize(reqs'[r].file)]]_vars

\* a load failed while an earlier model was on display, and it still is
C10_Witness ==
  \E r \in DOMAIN reqs :
    /\ reqs[r].outcome = "failed"
    /\ sceneModel # NoModel
    /\ sceneModel = reqs[r].start.sceneModel
    /\ currentModel = reqs[r].start.currentModel
    /\ loadingState = "error"

-----------------------------------------------------------------------------
(* Properties of the scene placement (SpecPlace) *)

\* the box of the loaded model as recomputed after the placement
FinalBox == setFromObject(loadedModel[1].after)

\* C11: placement normalization.  After the placement step for a model
\* whose largest dimension is above the threshold, whatever scale and
\* position its root had, the recomputed box is centred at the origin, its
\* largest dimension is the target size, and the camera framing is the one
\* computed from that box.
C11_PlacementNormalization ==
  (loadedModel # <<>> /\ Scales(loadedModel[1].before))
    => /\ getCenter(FinalBox) = ZeroVector
       /\ MaxDimension(getSize(FinalBox)) = RInt(TargetSize)
       /\ cameraTarget = getCenter(FinalBox)
       /\ cameraPosition = focusOnModel(loadedModel[1].after).position

\* C12: degenerate placement is a no-op.  For a model whose largest
\* dimension is at or below the threshold (also a model without geometry)
\* the placement leaves scale and position as they were, divides by nothing,
\* and placing the result again changes nothing.
C12_DegenerateNoOp ==
  (loadedModel # <<>> /\ ~Scales(loadedModel[1].before))
    => /\ loadedModel[1].after.scale = loadedModel[1].before.scale
       /\ loadedModel[1].after.position = loadedModel[1].before.position
       /\ ~loadedModel[1].divided
       /\ Place(loadedModel[1].after).model = loadedModel[1].after
       /\ ~Place(loadedModel[1].after).divided

\* a single point away from the origin under a scaled, moved root, added and
\* added again without a division
C12_Witness ==
  /\ loadedModel # <<>>
  /\ loadedModel[1].before.box # NoBox
  /\ ~Scales(loadedModel[1].before)
  /\ loadedModel[1].before.scale = <<2, 1>>
  /\ loadedModel[1].before.position = Vec(0, -2, 3)
  /\ placements = 2
  /\ divisions = 0

\* a model without geometry under a moved root
C12_WitnessEmpty ==
  /\ loadedModel # <<>>
  /\ loadedModel[1].before.box = NoBox
  /\ loadedModel[1].before.position = Vec(1, 0, 0)
  /\ loadedModel[1].after = loadedModel[1].before

-----------------------------------------------------------------------------
(* Properties of the camera gestures (SpecCamera) *)

\* C13: pinch-zoom distance bound.  From a camera within
\* [minDistance, maxDistance], after every zoomCamera call of any sequence
\* the distance of the camera to the target is within
\* [minDistance, maxDistance].
C13_ZoomDistanceBound ==
  /\ MinDistance * orbit.radius[2] <= orbit.radius[1]
  /\ orbit.radius[1] <= MaxDistance * orbit.radius[2]

\* C14: polar-angle bound.  After every single-finger orbit update the polar
\* angle of the camera is strictly inside (epsilon, pi - epsilon).
C14_PolarAngleBound ==
  MinPolarAngle < orbit.phi /\ orbit.phi < MaxPolarAngle

-----------------------------------------------------------------------------
(* Format resolution, under SpecFormat *)

\* the table of supported formats: extension, loader kind, read encoding
FormatTable ==
  {<<<<"o", "b", "j">>, "obj", "text">>, <<<<"f", "b", "x">>, "fbx", "binary">>,
   <<<<"s", "t", "l">>, "stl", "binary">>, <<<<"p", "l", "y">>, "ply", "binary">>,
   <<<<"d", "a", "e">>, "collada", "text">>,
   <<<<"3", "d", "s">>, "obj", "binary">>,
   <<<<"g", "l", "t", "f">>, "gltf", "binary">>,
   <<<<"g", "l", "b">>, "gltf", "binary">>,
   <<<<"3", "m", "f">>, "stl", "binary">>}

SupportedExtensions == {row[1] : row \in FormatTable}

\* the read encoding of a readAs value
Encoding(readAs) ==
  IF readAs = "text" THEN "text"
  ELSE IF readAs = "arrayBuffer" THEN "binary" ELSE "none"

\* the resolved name is stem, dot, suffix
NameIs(stem, suffix) ==
  resolved # <<>> /\ inputName = stem \o <<".">> \o suffix

C16_OtherNamesRejected ==
  \A stem \in Stems, suffix \in Suffixes :
    (NameIs(stem, suffix) /\ ToLowerCase(suffix) \notin SupportedExtensions)
      => /\ resolved[1].extension = Null
         /\ resolved[1].historyFormat = Null
         /\ resolved[1].validation = "UNSUPPORTED_FORMAT"
-----------------------------------------------------------------------------
(* The history service, under Spec *)

\* what a call of getHistory in this state returns, for every outcome of the
\* probe and of the Dexie read
HistoryLists ==
  {getHistory(dexie, local, useDexie, lsAvail, probe, fail) :
     probe \in BOOLEAN, fail \in {"none", "read"}}

-----------------------------------------------------------------------------
(* Validation, under SpecViewer *)

\* the file is over the size limit or its final suffix is no supported
\* extension
Invalid(file) ==
  \/ FileSize(file) > MaxFileSize
  \/ ToLowerCase(LastSegment(file.name)) \notin SupportedExtensions

\* the error code a validation of the file has to report
ExpectedCode(file) ==
  IF FileSize(file) > MaxFileSize THEN "FILE_TOO_LARGE" ELSE "UNSUPPORTED_FORMAT"

\* this step is the call of handleFileLoad for request r, with an invalid file
InvalidStart(r) ==
  /\ Len(reqs) = r - 1 /\ Len(reqs') = r
  /\ reqs'[r].kind = "file" /\ Invalid(reqs'[r].file)

\* C18: for a file that exceeds maxFileSize or has an unsupported extension,
\* handleFileLoad reports an error with code FILE_TOO_LARGE or
\* UNSUPPORTED_FORMAT, starts no read and no parse, does not set loadingState
\* to 'loading', and leaves the displayed asset and progress unchanged.
C18_ValidationStopsLoad ==
  [][\A r \in 1..MaxReq :
       InvalidStart(r)
         => /\ onErrorCalls'[r] >= 1
            /\ (hook = "viewer" => error' = ExpectedCode(reqs'[r].file))
            /\ reqs'[r].pc = "done"
            /\ (loadingState' = "loading" => loadingState = "loading")
            /\ UNCHANGED <<sceneModel, currentModel, currentFile, progress>>]_vars
\* a call left every stored entry alone: nothing was written, no Dexie step
\* ran (localStorage cannot be read when it is unavailable)
Untouched(r) ==
  r.dexie = dexie /\ r.local = local /\ ~r.usedDexie /\ ~r.failed

\* C19: when neither the Dexie probe succeeds nor localStorage is available,
\* addToHistory throws 'Storage is not supported' (the throw before any
\* storage step: no path was taken), getHistory returns [], getHistoryItem
\* null, deleteHistoryItem false, clearHistory returns nothing, and none of
\* the five reads or writes a stored entry.
C19_NoStorageNoAccess ==
  ~lsAvail =>
    /\ \A file \in Files, fail \in FailPoints, thumbnail \in Thumbnails :
         LET r == addToHistory(dexie, local, useDexie, lsAvail, file, now,
                               FALSE, fail, thumbnail)
         IN r.threw /\ r.path = "none" /\ r.ret = Null /\ Untouched(r)
    /\ \A fail \in FailPoints :
         LET r == getHistory(dexie, local, useDexie, lsAvail, FALSE, fail)
         IN ~r.threw /\ r.ret = <<>> /\ Untouched(r)
    /\ \A id \in StoredIds, fail \in FailPoints :
         /\ LET r == getHistoryItem(dexie, local, useDexie, lsAvail, id, FALSE, fail)
            IN ~r.threw /\ r.ret = Null /\ Untouched(r)
         /\ LET r == deleteHistoryItem(dexie, local, useDexie, lsAvail, id,
                                       FALSE, fail)
            IN ~r.threw /\ r.ret = FALSE /\ Untouched(r)
    /\ \A fail \in FailPoints :
         LET r == clearHistory(dexie, local, useDexie, lsAvail, FALSE, fail)
         IN ~r.threw /\ r.ret = Null /\ Untouched(r)
    /\ (last.op = "add" /\ last.threw /\ last.path = "none")
         => (last.ret = Null /\ ~last.usedDexie)

\* entries are stored in Dexie, neither backend is usable any more, and an
\* add has just failed for that reason
C19_Witness ==
  /\ ~lsAvail /\ dexie # {}
  /\ last.op = "add" /\ last.threw /\ last.path = "none"
\* what addToHistory does in this state when a step of the thumbnail
\* generation throws, next to what it does when none throws
ThumbnailFailures ==
  {[failed |-> addToHistory(dexie, local, useDexie, lsAvail, file, now, probe,
                            fail, thumbnail),
    fine |-> addToHistory(dexie, local, useDexie, lsAvail, file, now, probe,
                          fail, generateThumbnail("none"))] :
     file \in Files, probe \in BOOLEAN,
     fail \in {"none", "find", "get", "put", "add", "cleanup"},
     thumbnail \in {generateThumbnail(throwsAt) :
                      throwsAt \in ThumbnailSteps \ {"none"}}}

\* C20: if the thumbnail generation throws at any step, generateThumbnail
\* returns the empty string, and addToHistory still stores the entry, with
\* an empty thumbnail, and returns its id: the call throws only where it
\* throws with a thumbnail, and returns the same id.
C20_ThumbnailNeverFailsSave ==
  /\ \A throwsAt \in ThumbnailSteps \ {"none"} : generateThumbnail(throwsAt) = ""
  /\ \A c \in ThumbnailFailures :
       /\ c.failed.threw = c.fine.threw
       /\ c.failed.ret = c.fine.ret
       /\ (~c.failed.threw /\ c.failed.path = "insert")
            => \E x \in BackendRows(c.failed.dexie, c.failed.local,
                                    c.failed.useDexie) :
                 x.id = c.failed.ret /\ x.thumbnail = ""
  /\ (last.op = "add" /\ ~last.threw /\ last.path = "insert")
       => \E x \in BackendRows(dexie, local, useDexie) : x.id = last.ret

\* an add has stored a new entry in Dexie without a thumbnail
C20_Witness ==
  /\ last.op = "add" /\ ~last.threw /\ last.path = "insert" /\ useDexie
  /\ \E x \in dexie : x.id = last.ret /\ x.thumbnail = ""
\* C22: after every completed addToHistory, for any sequence of add, delete
\* and clear and any pattern of Dexie failures, getHistory returns at most
\* maxHistoryItems entries.
C22_CapacityInvariant ==
  (last.op = "add" /\ ~last.threw)
    => \A r \in HistoryLists : Len(r.ret) <= MaxHistoryItems
\* a call of a public operation in this state, with the Dexie probe
\* succeeding and localStorage available, in which Dexie step `fail` throws
FallbackCalls ==
  LET adds == {[fail |-> fail,
                r |-> addToHistory(dexie, local, useDexie, lsAvail, file, now,
                                   TRUE, fail, thumbnail)] :
                 file \in Files, thumbnail \in Thumbnails,
                 fail \in {"find", "get", "put", "add", "cleanup"}}
      lists == {[fail |-> "read",
                 r |-> getHistory(dexie, local, useDexie, lsAvail, TRUE, "read")]}
      gets == {[fail |-> "read",
                r |-> getHistoryItem(dexie, local, useDexie, lsAvail, id, TRUE,
                                     "read")] : id \in StoredIds}
      deletes == {[fail |-> "delete",
                   r |-> deleteHistoryItem(dexie, local, useDexie, lsAvail, id,
                                           TRUE, "delete")] : id \in StoredIds}
      clears == {[fail |-> "clear",
                  r |-> clearHistory(dexie, local, useDexie, lsAvail, TRUE,
                                     "clear")]}
  IN {c \in adds \cup lists \cup gets \cup deletes \cup clears : c.r.failed}

\* C24: when a Dexie step fails during a public operation and localStorage
\* is available, the same call completes on localStorage and returns
\* normally; an addToHistory whose duplicate search succeeded on Dexie and
\* whose timestamp refresh then failed returns an id.
C24_FallbackCompletesCall ==
  lsAvail =>
    /\ \A c \in FallbackCalls : ~c.r.threw /\ ~c.r.useDexie
    /\ \A c \in FallbackCalls :
         (c.r.path = "dedup" /\ c.fail \in {"get", "put"}) => c.r.ret \in StoredIds
    /\ (last.op = "add" /\ last.failed) => ~last.threw
\* the calls of addToHistory in this state that match a stored entry and
\* complete, with the thumbnail the model would get
DedupCalls ==
  {c \in {[file |-> file, probe |-> probe, fail |-> fail,
           thumbnail |-> thumbnail,
           r |-> addToHistory(dexie, local, useDexie, lsAvail, file, now, probe,
                              fail, thumbnail)] :
            file \in Files, probe \in BOOLEAN, thumbnail \in Thumbnails,
            fail \in {"none", "find", "get", "put", "add", "cleanup"}} :
     c.r.path = "dedup" /\ ~c.r.threw}

\* C25: when addToHistory matches an existing entry by (name, size) it
\* returns that entry's id, generates no thumbnail (the outcome does not
\* depend on one), and changes nothing but that entry's timestamp: its id,
\* name, data, format, size and thumbnail and every other entry are as before.
C25_DedupChangesOneTimestamp ==
  \A c \in DedupCalls :
    LET before == BackendRows(dexie, local, c.r.useDexie)
        after == BackendRows(c.r.dexie, c.r.local, c.r.useDexie)
    IN /\ \E x \in before :
            /\ x.id = c.r.ret
            /\ x.name = c.file.name /\ x.size = FileSize(c.file)
            /\ after = (before \ {x}) \cup {[x EXCEPT !.timestamp = now]}
       /\ BackendLen(c.r.dexie, c.r.local, c.r.useDexie)
            = BackendLen(dexie, local, c.r.useDexie)
       /\ (c.r.useDexie => c.r.local = local)
       /\ (~c.r.useDexie => c.r.dexie = dexie)
       /\ \A thumbnail \in Thumbnails :
            addToHistory(dexie, local, useDexie, lsAvail, c.file, now, c.probe,
                         c.fail, thumbnail) = c.r

\* a deduplicated add has completed on Dexie next to another entry, which
\* has kept its thumbnail
C25_Witness ==
  /\ last.op = "add" /\ ~last.threw /\ last.path = "dedup" /\ useDexie
  /\ Cardinality(dexie) = 2
  /\ \E x \in dexie : x.id = last.ret /\ x.timestamp = last.time
                        /\ x.thumbnail = "png"
-----------------------------------------------------------------------------
(* Overlapping adds, under SpecConcurrentAdd *)

\* C23: for two overlapping addToHistory calls with the same (name, size),
\* in every interleaving the store ends with exactly one entry for that
\* (name, size).
C23_DedupUnderInterleaving ==
  (\A p \in DOMAIN addCalls : addCalls[p].pc = "done" /\ ~addCalls[p].threw)
    => KeyCount(dexie, local, useDexie, SameFile.name, FileSize(SameFile)) = 1
-----------------------------------------------------------------------------
(* Mouse drag, orbit and teardown, under SpecPointer *)

MouseEvents == {"mousedown", "mousemove", "mouseup", "mouseleave"}

\* C21: the two interaction modes are disjoint.  A mouse event (mousedown,
\* mousemove, mouseup, mouseleave) changes at most the rotation of the
\* displayed model and leaves the camera position and orientation as they
\* are; a single-finger orbit changes at most the camera and leaves the
\* model and its rotation as they are.
C21_ModesDisjoint ==
  [][/\ lastEvent'.type \in MouseEvents
          => UNCHANGED <<orbit, cameraRoll, cameraPosition, cameraTarget,
                         loadedModel>>
     /\ lastEvent'.type = "orbit"
          => UNCHANGED <<rotation, modelRotation, loadedModel>>]_vars

\* a drag has turned the model and an orbit has then moved the camera away
\* from where addModel put it
C21_Witness ==
  /\ lastEvent.type = "orbit"
  /\ loadedModel # <<>>
  /\ rotation # [x |-> 0, y |-> 0]
  /\ orbit # FramedOrbit(loadedModel[1].after)

\* C27: drag state machine.  A mouse event changes the rotation of the
\* model only when it is a move while dragging (after a mousedown with no
\* mouseup or mouseleave since); a move while idle leaves the rotation
\* unchanged; every move applied to a model changes the rotation by
\* rotationSpeed times the delta from the previous pointer position, the
\* one stored at mousedown or at the last applied move.
C27_DragStateMachine ==
  [][lastEvent'.type \in MouseEvents =>
       /\ rotation' # rotation => lastEvent'.type = "mousemove" /\ isMouseDown
       /\ (lastEvent'.type = "mousemove" /\ isMouseDown /\ loadedModel # <<>>)
            => /\ rotation'.y - rotation.y
                    = RotationSpeed * (lastEvent'.x - previousMousePosition.x)
               /\ rotation'.x - rotation.x
                    = RotationSpeed * (lastEvent'.y - previousMousePosition.y)]_vars

\* the place of a step in the teardown
StepIndex(step) == CHOOSE i \in DOMAIN teardown : teardown[i] = step

\* C30: teardown order.  In SceneService.dispose the renderer is disposed
\* first, then the event listeners are removed, then the canvas is detached
\* from its mount element.
C30_TeardownOrder ==
  teardown # <<>> =>
    /\ StepIndex("rendererDispose") < StepIndex("removeCanvasListeners")
    /\ StepIndex("removeCanvasListeners") < StepIndex("removeCanvas")
-----------------------------------------------------------------------------
(* Touch gestures, the wheel and framing, under SpecTouch *)

\* C26: camera non-degeneracy.  After any sequence of addModel (also for an
\* asset without extent), wheel zoom, pinch zoom, single-finger orbit and
\* two-finger roll, the distance of the camera to its target is greater
\* than 0 and within [minDistance, maxDistance].
C26_CameraNonDegenerate ==
  /\ orbit.radius[1] > 0
  /\ MinDistance * orbit.radius[2] <= orbit.radius[1]
  /\ orbit.radius[1] <= MaxDistance * orbit.radius[2]

\* what the camera is after a step
Camera == [orbit |-> orbit, roll |-> cameraRoll]

\* the controller state a touchstart reporting the fingers now on the
\* surface records
RecordedAtStart ==
  handleTouchStart(touchState, surface.fingers, FALSE)

\* C28: a pinch ends when a finger lifts.  After a touchend that leaves
\* fewer than two touches, a touchmove of the remaining finger changes
\* nothing of the camera (no zoom, no roll, no orbit) until a new touchstart;
\* and the first two-finger move after that touchstart changes the camera by
\* the deltas from the distance and the angle of the touches at that
\* touchstart, not from those of the ended pinch.
C28_PinchEndsOnLift ==
  [][lastEvent'.type = "touchmove" =>
       /\ surface.phase = "ended" => UNCHANGED <<orbit, cameraRoll>>
       /\ (surface.phase = "restarted" /\ Len(surface.fingers) = 2)
            => [orbit |-> orbit', roll |-> cameraRoll']
                 = handleTouchMove(RecordedAtStart, surface'.fingers,
                                   Camera).camera]_vars

\* the change from one angle to another, the short way round, in (-pi, pi]
AngleChange(from, to) ==
  ((to - from + PiUnits - 1) % (2 * PiUnits)) - (PiUnits - 1)

\* the roll steps that follow a change of the angle: minus
\* rotationMultiplier times the change; for a half turn, which the fingers
\* can make either way round, also its opposite
RollSteps(change) ==
  {- RollPerAngleUnit * change} \cup
  (IF change = PiUnits THEN {RollPerAngleUnit * change} ELSE {})

\* C29: the two-finger roll follows the rotation of the fingers.  On every
\* two-finger move that follows a two-finger sample the camera roll changes
\* by minus rotationMultiplier times the change of the angle between the two
\* touches since the previous sample, also when the angle crosses +-pi and
\* when the previous angle is exactly 0.
C29_RollFollowsFingers ==
  [][(lastEvent'.type = "touchmove" /\ Len(surface.fingers) = 2
        /\ touchState.isActive /\ touchState.touches = surface.fingers)
       => cameraRoll' - cameraRoll
            \in RollSteps(AngleChange(
                   getTouchAngle(surface.fingers[1], surface.fingers[2]),
                   getTouchAngle(surface'.fingers[1], surface'.fingers[2])))]_vars
-----------------------------------------------------------------------------
(* Backends of the history service, under Spec *)

\* the ids stored in the localStorage array
LocalIds == {local[i].id : i \in 1..Len(local)}

\* the ids stored in the Dexie table
DexieIds == {x.id : x \in dexie}

\* C34: an add lands in exactly one backend.  After an addToHistory call has
\* returned an id, an entry with that id exists in exactly one of the two
\* backends, never in both, also when the Dexie insert or the eviction failed
\* part-way through the call.
C34_AddInOneBackend ==
  (last.op = "add" /\ ~last.threw) =>
    /\ last.ret \in DexieIds \cup LocalIds
    /\ ~(last.ret \in DexieIds /\ last.ret \in LocalIds)

\* C35: cleared entries never come back.  After clearHistory has completed,
\* getHistory returns the empty list, whether the backends fail or recover
\* at that call.
C35_ClearedStaysCleared ==
  (last.op = "clear" /\ ~last.threw) =>
    \A r \in HistoryLists : ~r.threw => r.ret = <<>>
-----------------------------------------------------------------------------
(* Zoom, under SpecCamera and SpecTouch *)

\* C38: pinch zoom only changes the radius.  For every camera reached and
\* every delta, the direction from the target to the camera after
\* zoomCamera equals the direction before the call: the camera is never
\* moved through the target to its opposite side.
C38_ZoomKeepsDirection ==
  \A zoomAmount \in ZoomAmounts :
    LET zoomed == zoomCamera(orbit, zoomAmount)
    IN zoomed.phi = orbit.phi /\ zoomed.theta = orbit.theta

\* the length of the camera position after a wheel step by the factor
\* (1 + direction * zoomStep), clamped to the wheel range
WheelScaled(radius, direction) ==
  LET length == RMul(radius, <<10 + direction, 10>>)
  IN IF length[1] = 0 THEN radius
     ELSE IF RLess(length, <<WheelMinLength, 1>>) THEN <<WheelMinLength, 1>>
     ELSE IF RLess(<<WheelMaxLength, 1>>, length) THEN <<WheelMaxLength, 1>>
     ELSE length

\* C39: a wheel event without vertical movement does not zoom.  A wheel
\* event with deltaY = 0 leaves the camera distance unchanged; deltaY > 0
\* multiplies it by 1 + zoomStep and deltaY < 0 by 1 - zoomStep, each
\* followed by the clamp to the wheel range.
C39_WheelZeroNoZoom ==
  [][lastEvent'.type = "wheel" =>
       /\ lastEvent'.y = 0 => orbit'.radius = orbit.radius
       /\ lastEvent'.y > 0 => orbit'.radius = WheelScaled(orbit.radius, 1)
       /\ lastEvent'.y < 0 => orbit'.radius = WheelScaled(orbit.radius, -1)]_vars

\* C37: placement is idempotent.  Adding an already placed asset a second
\* time leaves its scale, its position and its bounding box as the first
\* placement made them: for a model above the threshold the largest
\* dimension is still the target size and the box is still centred at the
\* origin.
C37_PlacementIdempotent ==
  loadedModel # <<>> =>
    LET placed == loadedModel[1].after
        again == Place(placed).model
    IN /\ again.scale = placed.scale
       /\ again.position = placed.position
       /\ setFromObject(again) = setFromObject(placed)
       /\ Scales(placed) =>
            /\ MaxDimension(getSize(setFromObject(again))) = RInt(TargetSize)
            /\ getCenter(setFromObject(again)) = ZeroVector


-----------------------------------------------------------------------------
(* Construction and teardown of services, under SpecServices *)

Disposed(k) == k \in DOMAIN sceneServices /\ ~sceneServices[k].live

\* C31: teardown removes every listener.  After SceneService.dispose has
\* returned, none of the listeners the service registered in initialize is
\* still registered (the five canvas listeners and the window resize
\* listener), and no animation frame of the service is pending or rendered.
C31_TeardownRemovesListeners ==
  \A k \in DOMAIN sceneServices :
    Disposed(k) =>
      /\ threeConfigs[k].listeners = {}
      /\ \A w \in windowListeners : w.service # k
      /\ k \notin frames

\* the renderer and canvas a live service holds
Live(k) == k \in DOMAIN sceneServices /\ sceneServices[k].live

\* C32: one canvas, one mount, owned by its viewer.  Whatever the sequence
\* of constructions and disposals, a mount holds at most one canvas, and
\* every live service has its own renderer undisposed and its canvas
\* attached to its own mount; so disposing one service never disposes the
\* renderer of another live service.
C32_CanvasOwnedByViewer ==
  /\ \A c, d \in DOMAIN threeConfigs :
       (threeConfigs[c].parent # 0 /\ threeConfigs[c].parent = threeConfigs[d].parent)
         => c = d
  /\ \A k \in DOMAIN sceneServices :
       Live(k) =>
         /\ sceneServices[k].threeConfig = k
         /\ ~threeConfigs[k].disposed
         /\ threeConfigs[k].parent = sceneServices[k].mountElement


-----------------------------------------------------------------------------
(* Loader input, under SpecFormat *)

\* C33: every loader call gets the encoding its parser needs.  For a file
\* of each of the nine supported extensions, on the direct load and on the
\* restore from the structured backend, the strategy selected by the
\* format's loader is handed text when it parses text (obj, collada) and
\* binary when it parses binary (fbx, stl, ply, gltf).
C33_LoaderGetsItsEncoding ==
  \A stem \in Stems, suffix \in Suffixes :
    (NameIs(stem, suffix) /\ ToLowerCase(suffix) \in SupportedExtensions)
      => /\ resolved[1].format # Null
         /\ resolved[1].read = Some(StrategyInput(resolved[1].format[1].loader))
         /\ resolved[1].historyFormat # Null
         /\ resolved[1].restored =
              Some(StrategyInput(resolved[1].historyFormat[1].loader))


-----------------------------------------------------------------------------
(* Restore from the history, under SpecRestore *)

\* the entry request r restores
RestoredEntries(r) == {x \in dexie : x.id = reqs[r].id}

\* C36: restoring from history does not grow history.  When
\* loadModelFromHistory(id) for an entry on the structured backend has run
\* to its end, with the storage working (nothing written to the fallback)
\* and nothing else loading, the number of history entries is what it was
\* and the restored entry is the most recent one.
C36_RestoreKeepsHistory ==
  (/\ Len(reqs) = 1
   /\ reqs[1].kind = "restore"
   /\ reqs[1].pc = "done"
   /\ useDexie /\ local = <<>>
   /\ \/ reqs[1].outcome = "restoreUnparsed"
      \/ reqs[1].outcome = "loaded" /\ reqs[1].saved = "ok")
    => /\ Cardinality(dexie) + Len(local) = Cardinality(reqs[1].start.ids)
       /\ \E e \in RestoredEntries(1) :
            \A x \in dexie : x = e \/ TimestampLess(x, e)


-----------------------------------------------------------------------------
(* Termination of loads, under SpecViewerFair *)

C40_WitnessFinished ==
  /\ Len(reqs) = 2
  /\ reqs[1].pc = "done" /\ reqs[2].pc = "done"
  /\ reqs[1].overtaken
  /\ loadingState \in {"success", "error"}

=============================================================================
